---------------------------- MODULE Spec2Model ----------------------------
(***************************************************************************)
(* remote-ws-proxy: a relay server, a LAN agent and a local HTTP proxy     *)
(* that exchange JSON frames.                                              *)
(*                                                                         *)
(* The module holds three state machines over disjoint variables:          *)
(*   SpecRelay  the relay of src/unnamed/part_001 (persistent sockets and  *)
(*              NDJSON streams) driven by arbitrary clients;               *)
(*   SpecProxy  the local proxy engine of src/src/proxy.js (second         *)
(*              revision in the file) fed by the relay's routing rules;    *)
(*   SpecLan    the LAN agent's tunnel engine of src/src/lan.js.           *)
(***************************************************************************)
EXTENDS Integers, Sequences, FiniteSets, TLC

(***************************************************************************)
(* Bounds of the model.                                                    *)
(***************************************************************************)
NumSockets == 2
NumStreams == 1
MaxId == 1
MaxQueue == 2
MaxMsgs == 4
NumReqs == 2
NumTuns == 1
MaxChunks == 2
MaxInbox == 2
MaxFwd == 4
NumAttempts == 2
MaxLanLog == 3
MaxFrames == 66
MaxIoSends == 4
MaxIoMsgs == 2
MaxSessMsgs == 3
MaxTicks == 3
MaxBody == 3
MaxPolls == 4
MaxArrive == 3

(***************************************************************************)
(* Program constants.                                                      *)
(***************************************************************************)
ProtocolVersion == 1
BATCH_COUNT == 64
parallelPolls == 3

Sockets == 1..NumSockets
Streams == 1..NumStreams
Ids == 1..MaxId
Sessions == {"s1"}
Roles == {"lan", "proxy"}
NoWs == 0

(***************************************************************************)
(* Frames.  Every frame is a record of the same shape; the fields a        *)
(* variant does not carry hold "" or 0.  pv = 0 is an absent               *)
(* protocolVersion (falsy in the source's test).                           *)
(***************************************************************************)
Frame(t, i, m) ==
  [type |-> t, id |-> i, msg |-> m, role |-> "", session |-> "", pv |-> 0]

Hello(r, s, v) ==
  [type |-> "hello", id |-> 0, msg |-> "", role |-> r, session |-> s, pv |-> v]

HelloAck(r, s) ==
  [type |-> "hello-ack", id |-> 0, msg |-> "", role |-> r, session |-> s,
   pv |-> ProtocolVersion]

ErrorFrame(m) == Frame("error", 0, m)

InvalidJson == Frame("<invalid json>", 0, "")

FromProxyTypes == {"http-request", "connect-start", "connect-data", "connect-end"}
FromLanTypes ==
  {"http-response", "connect-ack", "connect-error", "connect-data", "connect-end"}

\* What a client may put on the wire toward the relay: every hello the relay
\* tells apart (role valid, unknown or missing; protocolVersion absent, equal
\* or different), and one frame of each branch of the two routers.
HelloPayloads ==
  {Hello(r, s, v) : r \in Roles, s \in Sessions,
                    v \in {0, ProtocolVersion, ProtocolVersion + 1}}
  \cup {Hello(r, s, 0) : r \in {"admin", ""}, s \in Sessions}

WireTypes ==
  {"http-request", "connect-start", "connect-end",
   "http-response", "connect-ack", "connect-error", "bogus"}

DataPayloads == {Frame(t, i, "") : t \in WireTypes, i \in Ids}

Payloads == HelloPayloads \cup DataPayloads \cup {InvalidJson}

(***************************************************************************)
(* Relay state (startServer of part_001).                                  *)
(***************************************************************************)
VARIABLES
  wsState,        \* readyState of each persistent socket
  wsMeta,         \* connectionMeta: socket -> {session, role} or NoMeta
  chan,           \* sessions: session -> role -> channel {ws, queue, streams}
  requests,       \* session -> Map id -> origin role, in insertion order
  tunnels,        \* session -> Map id -> origin role, in insertion order
  streamState,    \* each GET /api/stream response: "idle" | "open" | "closed"
  sent,           \* what the last relay step wrote or closed, in order
  nMsgs           \* frames the relay has received so far (bounds the model)

relayVars ==
  <<wsState, wsMeta, chan, requests, tunnels, streamState, sent, nMsgs>>

(***************************************************************************)
(* Local proxy state (startProxy of src/src/proxy.js, persistent-socket     *)
(* transport) together with what the relay tracks for it.                  *)
(***************************************************************************)
VARIABLES
  pWs,            \* readyState of the proxy's socket to the relay
  reqPhase,       \* each browser request: "idle" | "reading" | "done"
  pendingHttp,    \* ids in the pendingHttp map
  timers,         \* ids whose 30 s timer is armed
  resHead,        \* per request: the status codes writeHead has written
  resEnd,         \* per request: the number of res.end calls
  pTunnels,       \* per CONNECT: the tunnel object {inMap, acked, queue, head}
  cPhase,         \* per CONNECT: "idle" | "open" | "ended" | "refused"
  clientLog,      \* per CONNECT: what the proxy did to the client socket
  nArrived,       \* per CONNECT: chunks received from the client, head included
  upData,         \* per CONNECT: the chunks sent to the relay as connect-data
  relReq,         \* request ids the relay holds in requests
  relTun,         \* per tunnel id at the relay/LAN: "none" | "started" | "acked"
  inbox,          \* frames in flight from the relay to the proxy
  pSent,          \* frames the last proxy step sent to the relay
  nFwd            \* frames the relay has forwarded so far (bounds the model)

httpSide == <<reqPhase, pendingHttp, timers, resHead, resEnd>>
tunSide == <<pTunnels, cPhase, clientLog, nArrived, upData>>
proxyVars == <<pWs, httpSide, tunSide, relReq, relTun, inbox, pSent, nFwd>>

(***************************************************************************)
(* LAN agent state (startLan of src/src/lan.js).                           *)
(***************************************************************************)
VARIABLES
  tunnelProxyUrl, \* TRUE when tunnels are opened through an HTTP proxy
  lTunnels,       \* ids in the agent's tunnels map
  tgt,            \* per connect-start: state of the socket to the target
  attached,       \* per connect-start: the data/error/end listeners are set
  lanLog          \* per id: the types of the frames handed to send(), in order

lanVars == <<tunnelProxyUrl, lTunnels, tgt, attached, lanLog>>

(***************************************************************************)
(* Transport of the LAN agent of src/unnamed/part_001 (runWsMode,          *)
(* runHttpMode).  Outbound frames are numbered in the order the agent      *)
(* creates them.                                                           *)
(***************************************************************************)
VARIABLES
  transport,      \* the configured mode: "ws" | "http" | "auto"
  aWs,            \* the agent's socket: "none" | "CONNECTING" | "OPEN" | "ERRORED" | "CLOSED"
  opened,         \* runWsMode's flag
  listening,      \* the socket's listeners are still set
  httpRuns,       \* how many times runHttpMode has run
  ackedVia,       \* where hello-ack was received: "none" | "ws" | "http"
  outbox,         \* runHttpMode's outbox
  inflight,       \* the batch whose POST is awaited, <<>> when none
  postResult,     \* outcome of the last POST: "none" | "ok" | "status" | "throws"
  firstPosted,    \* the first frame ever POSTed, 0 before
  nFrames,        \* frames created so far
  aOut            \* what the last agent step put on the wire: [via, frames]

agentVars ==
  <<transport, aWs, opened, listening, httpRuns, ackedVia, outbox, inflight,
    postResult, firstPosted, nFrames, aOut>>

(***************************************************************************)
(* The socket.io clients (src/src/lan.js, src/unnamed/part_003): the       *)
(* connection to the relay and the outbox in front of it.  Frames are      *)
(* numbered in the order the client hands them to send.                    *)
(***************************************************************************)
VARIABLES
  ioRole,         \* which client this is: "lan" (send) | "proxy" (sendToServer)
  ioConnected,    \* socket.connected
  ioOutbox,       \* outbox
  ioEmitted,      \* the frames the last step emitted on the socket, in order
  ioSends,        \* frames handed to send so far
  ioHandled       \* incoming frames handled so far

ioVars == <<ioRole, ioConnected, ioOutbox, ioEmitted, ioSends, ioHandled>>

\* The client right after io(ioUrl, ...): not yet connected, nothing sent.
IoStart(role) ==
  /\ ioRole = role
  /\ ioConnected = FALSE
  /\ ioOutbox = <<>>
  /\ ioEmitted = <<>>
  /\ ioSends = 0
  /\ ioHandled = 0

(***************************************************************************)
(* The relay process outside its session maps (startServer of part_001):   *)
(* whether the process is running, and the heartbeat.                      *)
(***************************************************************************)
VARIABLES
  relayUp,        \* FALSE once an exception no handler catches ended the process
  isAlive,        \* ws.isAlive of each socket
  hbTicks,        \* heartbeat ticks so far (bounds the model)
  pinged,         \* the sockets the last tick pinged
  terminated,     \* the sockets the last tick terminated
  answered        \* the sockets whose pong arrived since the last tick

srvVars == <<relayUp, isAlive, hbTicks, pinged, terminated, answered>>

\* The relay process after startServer: running, no tick yet.  isAlive is
\* set when a socket connects.
SrvStart ==
  /\ relayUp = TRUE
  /\ isAlive = [w \in Sockets |-> TRUE]
  /\ hbTicks = 0
  /\ pinged = {}
  /\ terminated = {}
  /\ answered = {}

(***************************************************************************)
(* The body codec of common.js (encodeBody / decodeBody): a body on its    *)
(* way through one encoding and one decoding.                              *)
(***************************************************************************)
VARIABLES
  body,           \* the value handed to encodeBody
  encoded,        \* the string encodeBody returned
  decoded,        \* the buffer decodeBody returned
  codecPc         \* "input", "encoded" or "decoded"

codecVars == <<body, encoded, decoded, codecPc>>

\* No body in flight.
CodecStart ==
  /\ body = <<>>
  /\ encoded = <<>>
  /\ decoded = <<>>
  /\ codecPc = "input"

(***************************************************************************)
(* The long-poll channel of server.js (respondChannel / drainChannel and   *)
(* the GET recv handler): one channel without a socket, the recv requests  *)
(* the pollers of one client hold open on it, and the frames that arrive   *)
(* for it.                                                                 *)
(***************************************************************************)
VARIABLES
  queue,          \* channel.queue: the frames waiting for a recv request
  pendingRes,     \* channel.pendingRes: the recv request the channel holds
  pendingTimer,   \* channel.pendingTimer: the timer armed with pendingRes
  armed,          \* the 30 s timers that are armed, oldest first
  recv,           \* per recv request: "none", "open", or its answers
  nRecv,          \* recv requests received so far
  nPayloads        \* frames that arrived for the channel so far

pollVars == <<queue, pendingRes, pendingTimer, armed, recv, nRecv, nPayloads>>

Polls == 1..MaxPolls
NoRes == 0

\* A recv request the relay has not received yet, and what a response ends
\* with: the status, the frame of the body (0: no body) and, for the 204 of
\* a timeout, the timer whose callback wrote it.
NoRecv == [state |-> "none", answers |-> <<>>]
Answer(st, f, t) == [status |-> st, frame |-> f, timer |-> t]

\* createChannel without a socket, and no recv request received.
PollStart ==
  /\ queue = <<>>
  /\ pendingRes = NoRes
  /\ pendingTimer = NoRes
  /\ armed = <<>>
  /\ recv = [q \in Polls |-> NoRecv]
  /\ nRecv = 0
  /\ nPayloads = 0

vars == <<relayVars, proxyVars, lanVars, agentVars, ioVars, srvVars, codecVars, pollVars>>

\* The hello is the first frame the agent creates.
HelloFrame == 1

NoOut == [via |-> "none", frames |-> <<>>]

\* startLan's mode dispatch: 'http' runs runHttpMode (hello pushed, loop()
\* builds the batch [hello] and starts its POST before returning), the other
\* modes run runWsMode.
AgentStart(mode) ==
  /\ transport = mode
  /\ aWs = IF mode = "http" THEN "none" ELSE "CONNECTING"
  /\ opened = FALSE
  /\ listening = (mode # "http")
  /\ httpRuns = IF mode = "http" THEN 1 ELSE 0
  /\ ackedVia = "none"
  /\ outbox = <<>>
  /\ inflight = IF mode = "http" THEN <<HelloFrame>> ELSE <<>>
  /\ postResult = "none"
  /\ firstPosted = IF mode = "http" THEN HelloFrame ELSE 0
  /\ nFrames = IF mode = "http" THEN 1 ELSE 0
  /\ aOut = IF mode = "http" THEN [via |-> "http", frames |-> <<HelloFrame>>] ELSE NoOut

Reqs == 1..NumReqs
Tuns == 1..NumTuns
Attempts == 1..NumAttempts

\* The client's chunks are numbered 1, 2, ... in arrival order; head is the
\* number of the head chunk, 0 when head is empty.
NoTunnel == [inMap |-> FALSE, acked |-> FALSE, queue |-> <<>>, head |-> 0]

\* startProxy before runWsMode's socket opens.
ProxyStart ==
  /\ pWs = "CONNECTING"
  /\ reqPhase = [r \in Reqs |-> "idle"]
  /\ pendingHttp = {}
  /\ timers = {}
  /\ resHead = [r \in Reqs |-> <<>>]
  /\ resEnd = [r \in Reqs |-> 0]
  /\ pTunnels = [c \in Tuns |-> NoTunnel]
  /\ cPhase = [c \in Tuns |-> "idle"]
  /\ clientLog = [c \in Tuns |-> <<>>]
  /\ nArrived = [c \in Tuns |-> 0]
  /\ upData = [c \in Tuns |-> <<>>]
  /\ relReq = {}
  /\ relTun = [c \in Tuns |-> "none"]
  /\ inbox = <<>>
  /\ pSent = <<>>
  /\ nFwd = 0

\* startLan with the given tunnel-proxy setting.
LanStart(viaProxy) ==
  /\ tunnelProxyUrl = viaProxy
  /\ lTunnels = {}
  /\ tgt = [i \in Attempts |-> "none"]
  /\ attached = [i \in Attempts |-> FALSE]
  /\ lanLog = [i \in Attempts |-> <<>>]

NoMeta == [session |-> "", role |-> ""]

createChannel == [ws |-> NoWs, queue |-> <<>>, streams |-> <<>>]

\* One map entry of requests / tunnels.
Entry(i, r) == [id |-> i, src |-> r]

RECURSIVE SeqFilterSrc(_, _)
SeqFilterSrc(m, r) ==
  IF m = <<>> THEN <<>>
  ELSE IF Head(m).src = r THEN <<Head(m)>> \o SeqFilterSrc(Tail(m), r)
       ELSE SeqFilterSrc(Tail(m), r)

RECURSIVE SeqDropSrc(_, _)
SeqDropSrc(m, r) ==
  IF m = <<>> THEN <<>>
  ELSE IF Head(m).src = r THEN SeqDropSrc(Tail(m), r)
       ELSE <<Head(m)>> \o SeqDropSrc(Tail(m), r)

RECURSIVE MapDelete(_, _)
MapDelete(m, i) ==
  IF m = <<>> THEN <<>>
  ELSE IF Head(m).id = i THEN Tail(m)
       ELSE <<Head(m)>> \o MapDelete(Tail(m), i)

MapHas(m, i) == \E k \in 1..Len(m) : m[k].id = i

MapGet(m, i) ==
  IF MapHas(m, i) THEN (CHOOSE e \in {m[k] : k \in 1..Len(m)} : e.id = i).src
  ELSE ""

\* Map.set: a present key keeps its place, a new key goes last.
MapSet(m, i, r) ==
  IF MapHas(m, i)
  THEN [k \in 1..Len(m) |-> IF m[k].id = i THEN Entry(i, r) ELSE m[k]]
  ELSE Append(m, Entry(i, r))

MapIds(m) == {m[k].id : k \in 1..Len(m)}


(***************************************************************************)
(* The relay's handlers are sequential code.  Each is modelled as a        *)
(* function on a heap record H that holds the fields a handler may touch;  *)
(* an action applies the handler to the current state and assigns the      *)
(* result.                                                                 *)
(***************************************************************************)
Heap ==
  [wsState |-> wsState, wsMeta |-> wsMeta, chan |-> chan, requests |-> requests,
   tunnels |-> tunnels, streamState |-> streamState, sent |-> <<>>]

\* One output of the relay: a frame and where it went ("ws", "stream",
\* "queue"), or the close of a socket ("close", the reason in the frame's msg).
Out(to, n, s, r, f) == [to |-> to, n |-> n, session |-> s, role |-> r, frame |-> f]

\* safeSend(ws, payload): written only when the socket is OPEN.
safeSend(H, w, f) ==
  IF w # NoWs /\ H.wsState[w] = "OPEN"
  THEN [H EXCEPT !.sent = Append(@, Out("ws", w, "", "", f))]
  ELSE H

\* writeStream(res, payload): res.write of one NDJSON line.
writeStream(H, r, s, role, f) ==
  [H EXCEPT !.sent = Append(@, Out("stream", r, s, role, f))]

\* respondChannel that tries the attached stream before the live socket.
respondChannel_StreamFirst(H, s, r, f) ==
  LET c == H.chan[s][r] IN
  IF Len(c.streams) > 0
  THEN writeStream(H, c.streams[1], s, r, f)
  ELSE IF c.ws # NoWs /\ H.wsState[c.ws] = "OPEN"
  THEN [H EXCEPT !.sent = Append(@, Out("ws", c.ws, s, r, f))]
  ELSE [H EXCEPT !.chan[s][r].queue = Append(@, f),
                 !.sent = Append(@, Out("queue", 0, s, r, f))]

\* respondChannel(channel, payload): live socket, else first stream, else queue.
respondChannel(H, s, r, f) ==
  LET c == H.chan[s][r] IN
  IF c.ws # NoWs /\ H.wsState[c.ws] = "OPEN"
  THEN [H EXCEPT !.sent = Append(@, Out("ws", c.ws, s, r, f))]
  ELSE IF Len(c.streams) > 0
  THEN writeStream(H, c.streams[1], s, r, f)
  ELSE [H EXCEPT !.chan[s][r].queue = Append(@, f),
                 !.sent = Append(@, Out("queue", 0, s, r, f))]

RECURSIVE respondAll(_, _, _, _)
respondAll(H, s, r, fs) ==
  IF fs = <<>> THEN H
  ELSE respondAll(respondChannel(H, s, r, Head(fs)), s, r, Tail(fs))

\* drainQueueToStream that pops from the wrong end of the queue.
RECURSIVE drainQueueToStream_Lifo(_, _, _, _)
drainQueueToStream_Lifo(H, s, r, res) ==
  IF H.chan[s][r].queue = <<>> THEN H
  ELSE LET q == H.chan[s][r].queue IN
       drainQueueToStream_Lifo(
         [H EXCEPT !.chan[s][r].queue = SubSeq(q, 1, Len(q) - 1),
                   !.sent = Append(@, Out("stream", res, s, r, q[Len(q)]))],
         s, r, res)

\* drainQueueToStream(channel, res)
RECURSIVE drainQueueToStream(_, _, _, _)
drainQueueToStream(H, s, r, res) ==
  IF H.chan[s][r].queue = <<>> THEN H
  ELSE drainQueueToStream(
         writeStream([H EXCEPT !.chan[s][r].queue = Tail(@)], res, s, r,
                     Head(H.chan[s][r].queue)),
         s, r, res)

\* ws.close(1000, reason) by the relay: an OPEN socket goes to CLOSING.
wsClose(H, w, reason) ==
  IF H.wsState[w] = "OPEN"
  THEN [H EXCEPT !.wsState[w] = "CLOSING",
                 !.sent = Append(@, Out("close", w, "", "", Frame("<close>", 0, reason)))]
  ELSE H

\* handleHello that forgets to close the socket it displaces.
handleHello_KeepsDisplaced(H, s, role, w, pv) ==
  IF role \notin Roles THEN H
  ELSE IF pv # 0 /\ pv # ProtocolVersion THEN H
  ELSE respondChannel(IF w # NoWs THEN [H EXCEPT !.chan[s][role].ws = w] ELSE H,
                      s, role, HelloAck(role, s))

\* handleHello(sessionName, role, sender): w = NoWs is the HTTP sender.
handleHello(H, s, role, w, pv) ==
  IF role \notin Roles THEN H
  ELSE IF pv # 0 /\ pv # ProtocolVersion THEN H
  ELSE
    LET old == H.chan[s][role].ws
        H1 == IF w # NoWs
              THEN LET Hc == IF old # NoWs /\ old # w
                             THEN wsClose(H, old, "Replaced by new connection")
                             ELSE H
                   IN [Hc EXCEPT !.chan[s][role].ws = w]
              ELSE H
    IN respondChannel(H1, s, role, HelloAck(role, s))

\* routeFromProxy that passes a frame of unknown type on to the LAN.
routeFromProxy_ForwardsUnknown(H, s, f) ==
  CASE f.type = "http-request" ->
         respondChannel([H EXCEPT !.requests[s] = MapSet(@, f.id, "proxy")],
                        s, "lan", f)
    [] f.type = "connect-start" ->
         respondChannel([H EXCEPT !.tunnels[s] = MapSet(@, f.id, "proxy")],
                        s, "lan", f)
    [] OTHER ->
         respondChannel(H, s, "lan", f)

\* routeFromLan that forwards whether or not the id is recorded.
routeFromLan_ForwardsUnrecorded(H, s, f) ==
  CASE f.type = "http-response" ->
         [respondChannel(H, s, "proxy", f) EXCEPT !.requests[s] = MapDelete(@, f.id)]
    [] f.type \in {"connect-ack", "connect-error", "connect-data", "connect-end"} ->
         LET H1 == respondChannel(H, s, "proxy", f)
         IN IF f.type \in {"connect-error", "connect-end"}
            THEN [H1 EXCEPT !.tunnels[s] = MapDelete(@, f.id)]
            ELSE H1
    [] OTHER ->
         respondChannel(H, s, "lan", ErrorFrame("Unknown message type from LAN"))

\* routeFromLan that forwards an http-response and keeps its requests entry.
routeFromLan_KeepsRequest(H, s, f) ==
  CASE f.type = "http-response" ->
         IF MapGet(H.requests[s], f.id) = "proxy"
         THEN respondChannel(H, s, "proxy", f) ELSE H
    [] f.type \in {"connect-ack", "connect-error", "connect-data", "connect-end"} ->
         LET H1 == IF MapGet(H.tunnels[s], f.id) = "proxy"
                   THEN respondChannel(H, s, "proxy", f) ELSE H
         IN IF f.type \in {"connect-error", "connect-end"}
            THEN [H1 EXCEPT !.tunnels[s] = MapDelete(@, f.id)]
            ELSE H1
    [] OTHER ->
         respondChannel(H, s, "lan", ErrorFrame("Unknown message type from LAN"))

\* routeFromProxy(sessionName, payload)
routeFromProxy(H, s, f) ==
  CASE f.type = "http-request" ->
         respondChannel([H EXCEPT !.requests[s] = MapSet(@, f.id, "proxy")],
                        s, "lan", f)
    [] f.type = "connect-start" ->
         respondChannel([H EXCEPT !.tunnels[s] = MapSet(@, f.id, "proxy")],
                        s, "lan", f)
    [] f.type \in {"connect-data", "connect-end"} ->
         respondChannel(H, s, "lan", f)
    [] OTHER ->
         respondChannel(H, s, "proxy",
                        ErrorFrame("Unknown message type from proxy"))

\* routeFromLan that deletes the tunnels entry on connect-error only.
routeFromLan_EndKeepsTunnel(H, s, f) ==
  CASE f.type = "http-response" ->
         LET H1 == IF MapGet(H.requests[s], f.id) = "proxy"
                   THEN respondChannel(H, s, "proxy", f) ELSE H
         IN [H1 EXCEPT !.requests[s] = MapDelete(@, f.id)]
    [] f.type \in {"connect-ack", "connect-error", "connect-data", "connect-end"} ->
         LET H1 == IF MapGet(H.tunnels[s], f.id) = "proxy"
                   THEN respondChannel(H, s, "proxy", f) ELSE H
         IN IF f.type = "connect-error"
            THEN [H1 EXCEPT !.tunnels[s] = MapDelete(@, f.id)]
            ELSE H1
    [] OTHER ->
         respondChannel(H, s, "lan", ErrorFrame("Unknown message type from LAN"))

\* routeFromLan(sessionName, payload)
routeFromLan(H, s, f) ==
  CASE f.type = "http-response" ->
         LET H1 == IF MapGet(H.requests[s], f.id) = "proxy"
                   THEN respondChannel(H, s, "proxy", f) ELSE H
         IN [H1 EXCEPT !.requests[s] = MapDelete(@, f.id)]
    [] f.type \in {"connect-ack", "connect-error", "connect-data", "connect-end"} ->
         LET H1 == IF MapGet(H.tunnels[s], f.id) = "proxy"
                   THEN respondChannel(H, s, "proxy", f) ELSE H
         IN IF f.type \in {"connect-error", "connect-end"}
            THEN [H1 EXCEPT !.tunnels[s] = MapDelete(@, f.id)]
            ELSE H1
    [] OTHER ->
         respondChannel(H, s, "lan", ErrorFrame("Unknown message type from LAN"))

\* The frames cleanupWs synthesizes, in the maps' iteration order.
LanGoneResponses(m) ==
  [k \in 1..Len(SeqFilterSrc(m, "proxy")) |->
     Frame("http-response", SeqFilterSrc(m, "proxy")[k].id, "LAN disconnected")]

\* The cleanup's connect-errors with every tunnel answered twice.
LanGoneErrors_Doubled(m) ==
  [k \in 1..(2 * Len(SeqFilterSrc(m, "proxy"))) |->
     Frame("connect-error", SeqFilterSrc(m, "proxy")[(k + 1) \div 2].id, "LAN disconnected")]

LanGoneErrors(m) ==
  [k \in 1..Len(SeqFilterSrc(m, "proxy")) |->
     Frame("connect-error", SeqFilterSrc(m, "proxy")[k].id, "LAN disconnected")]

\* connect-end frames numbered by the relay instead of carrying the map's ids.
ProxyGoneEnds_MintsIds(m) ==
  [k \in 1..Len(SeqFilterSrc(m, "proxy")) |->
     Frame("connect-end", MaxId + k, "")]

ProxyGoneEnds(m) ==
  [k \in 1..Len(SeqFilterSrc(m, "proxy")) |->
     Frame("connect-end", SeqFilterSrc(m, "proxy")[k].id, "")]

\* cleanupWs whose LAN branch forgets the tunnels map.
cleanupWs_LanSkipsTunnels(H, w) ==
  LET meta == H.wsMeta[w] IN
  IF meta = NoMeta THEN H
  ELSE
    LET s == meta.session
        H1 == IF meta.role \in Roles /\ H.chan[s][meta.role].ws = w
              THEN [H EXCEPT !.chan[s][meta.role].ws = NoWs]
              ELSE H
        H2 == IF meta.role = "lan"
              THEN [respondAll(H1, s, "proxy", LanGoneResponses(H1.requests[s]))
                      EXCEPT !.requests[s] = <<>>]
              ELSE IF meta.role = "proxy"
              THEN LET Ha == [H1 EXCEPT !.requests[s] = SeqDropSrc(@, "proxy")]
                       Hb == respondAll(Ha, s, "lan", ProxyGoneEnds(Ha.tunnels[s]))
                   IN [Hb EXCEPT !.tunnels[s] = SeqDropSrc(@, "proxy")]
              ELSE H1
    IN [H2 EXCEPT !.wsMeta[w] = NoMeta]

\* cleanupWs whose proxy branch drops the tunnels without telling the LAN.
cleanupWs_ProxySilent(H, w) ==
  LET meta == H.wsMeta[w] IN
  IF meta = NoMeta THEN H
  ELSE
    LET s == meta.session
        H1 == IF meta.role \in Roles /\ H.chan[s][meta.role].ws = w
              THEN [H EXCEPT !.chan[s][meta.role].ws = NoWs]
              ELSE H
        H2 == IF meta.role = "lan"
              THEN LET Ha == respondAll(H1, s, "proxy", LanGoneResponses(H1.requests[s]))
                       Hb == [Ha EXCEPT !.requests[s] = <<>>]
                       Hc == respondAll(Hb, s, "proxy", LanGoneErrors(Hb.tunnels[s]))
                   IN [Hc EXCEPT !.tunnels[s] = <<>>]
              ELSE IF meta.role = "proxy"
              THEN [H1 EXCEPT !.requests[s] = SeqDropSrc(@, "proxy"),
                              !.tunnels[s] = SeqDropSrc(@, "proxy")]
              ELSE H1
    IN [H2 EXCEPT !.wsMeta[w] = NoMeta]

\* cleanupWs whose proxy branch also ends the proxy's requests at the LAN.
cleanupWs_ProxyEndsRequests(H, w) ==
  LET meta == H.wsMeta[w] IN
  IF meta = NoMeta THEN H
  ELSE
    LET s == meta.session
        H1 == IF meta.role \in Roles /\ H.chan[s][meta.role].ws = w
              THEN [H EXCEPT !.chan[s][meta.role].ws = NoWs]
              ELSE H
        H2 == IF meta.role = "lan"
              THEN LET Ha == respondAll(H1, s, "proxy", LanGoneResponses(H1.requests[s]))
                       Hb == [Ha EXCEPT !.requests[s] = <<>>]
                       Hc == respondAll(Hb, s, "proxy", LanGoneErrors(Hb.tunnels[s]))
                   IN [Hc EXCEPT !.tunnels[s] = <<>>]
              ELSE IF meta.role = "proxy"
              THEN LET Ha == respondAll(H1, s, "lan", ProxyGoneEnds(H1.requests[s]))
                       Hb == [Ha EXCEPT !.requests[s] = SeqDropSrc(@, "proxy")]
                       Hc == respondAll(Hb, s, "lan", ProxyGoneEnds(Hb.tunnels[s]))
                   IN [Hc EXCEPT !.tunnels[s] = SeqDropSrc(@, "proxy")]
              ELSE H1
    IN [H2 EXCEPT !.wsMeta[w] = NoMeta]

\* cleanupWs(ws), run by the socket's close (or error) event.
cleanupWs(H, w) ==
  LET meta == H.wsMeta[w] IN
  IF meta = NoMeta THEN H
  ELSE
    LET s == meta.session
        H1 == IF meta.role \in Roles /\ H.chan[s][meta.role].ws = w
              THEN [H EXCEPT !.chan[s][meta.role].ws = NoWs]
              ELSE H
        H2 == IF meta.role = "lan"
              THEN LET Ha == respondAll(H1, s, "proxy", LanGoneResponses(H1.requests[s]))
                       Hb == [Ha EXCEPT !.requests[s] = <<>>]
                       Hc == respondAll(Hb, s, "proxy", LanGoneErrors(Hb.tunnels[s]))
                   IN [Hc EXCEPT !.tunnels[s] = <<>>]
              ELSE IF meta.role = "proxy"
              THEN LET Ha == [H1 EXCEPT !.requests[s] = SeqDropSrc(@, "proxy")]
                       Hb == respondAll(Ha, s, "lan", ProxyGoneEnds(Ha.tunnels[s]))
                   IN [Hb EXCEPT !.tunnels[s] = SeqDropSrc(@, "proxy")]
              ELSE H1
    IN [H2 EXCEPT !.wsMeta[w] = NoMeta]

\* handlePayload(sessionName, role, payload): a frame POSTed to /api/send.
handlePayload(H, s, role, f) ==
  IF f.type = "hello"
  THEN handleHello(H, s, IF f.role # "" THEN f.role ELSE role, NoWs, f.pv)
  ELSE IF role = "proxy" THEN routeFromProxy(H, s, f)
  ELSE routeFromLan(H, s, f)

\* handleWsMessage(ws, data)
handleWsMessage(H, w, f) ==
  IF f = InvalidJson THEN safeSend(H, w, ErrorFrame("Invalid JSON payload"))
  ELSE IF f.type = "hello"
  THEN IF f.session = "" \/ f.role = ""
       THEN safeSend(H, w, ErrorFrame("Invalid hello payload"))
       ELSE handleHello([H EXCEPT !.wsMeta[w] = [session |-> f.session, role |-> f.role]],
                        f.session, f.role, w, f.pv)
  ELSE IF H.wsMeta[w] = NoMeta
  THEN safeSend(H, w, ErrorFrame("Handshake required"))
  ELSE IF H.wsMeta[w].role = "proxy"
  THEN routeFromProxy(H, H.wsMeta[w].session, f)
  ELSE routeFromLan(H, H.wsMeta[w].session, f)

\* The queues of a session hold at most MaxQueue frames together.
Bounded(H) ==
  \A s \in DOMAIN H.chan : Len(H.chan[s]["lan"].queue) + Len(H.chan[s]["proxy"].queue) <= MaxQueue

\* Assign a handler's result to the relay's variables; n = 1 when the step
\* consumed a frame from a client.
Commit(H, n) ==
  /\ Bounded(H)
  /\ nMsgs + n <= MaxMsgs
  /\ wsState' = H.wsState
  /\ wsMeta' = H.wsMeta
  /\ chan' = H.chan
  /\ requests' = H.requests
  /\ tunnels' = H.tunnels
  /\ streamState' = H.streamState
  /\ sent' = H.sent
  /\ nMsgs' = nMsgs + n
  /\ UNCHANGED <<proxyVars, lanVars, agentVars, ioVars, srvVars, codecVars, pollVars>>

RelayInit ==
  /\ ProxyStart
  /\ LanStart(FALSE)
  /\ AgentStart("ws")
  /\ IoStart("lan")
  /\ SrvStart
  /\ CodecStart
  /\ PollStart
  /\ wsState = [w \in Sockets |-> "NEW"]
  /\ wsMeta = [w \in Sockets |-> NoMeta]
  /\ chan = [s \in Sessions |-> [r \in Roles |-> createChannel]]
  /\ requests = [s \in Sessions |-> <<>>]
  /\ tunnels = [s \in Sessions |-> <<>>]
  /\ streamState = [r \in Streams |-> "idle"]
  /\ sent = <<>>
  /\ nMsgs = 0

\* wss.on('connection'): a client opens a persistent socket (sockets are
\* numbered in the order they connect).
WsConnect(w) ==
  /\ wsState[w] = "NEW"
  /\ \A v \in Sockets : v < w => wsState[v] # "NEW"
  /\ Commit([Heap EXCEPT !.wsState[w] = "OPEN"], 0)

\* ws.on('message'): frames still arrive while the relay's close is in flight.
OnWsMessage(H, w, f) == handleWsMessage(H, w, f)

WsMessage(w, f) ==
  /\ wsState[w] \in {"OPEN", "CLOSING"}
  /\ Commit(OnWsMessage(Heap, w, f), 1)

\* ws.on('close'): the socket is CLOSED when cleanupWs runs.
OnWsClose(H, w) == cleanupWs([H EXCEPT !.wsState[w] = "CLOSED"], w)

WsClose(w) ==
  /\ wsState[w] \in {"OPEN", "CLOSING"}
  /\ Commit(OnWsClose(Heap, w), 0)

\* GET /api/stream/<session>?role=<role>: 400 on a bad role, else the response
\* joins channel.streams and the queue is drained to it.
OnStream(H, r, s, role) ==
  IF role \notin Roles
  THEN [H EXCEPT !.streamState[r] = "closed"]
  ELSE drainQueueToStream(
         [H EXCEPT !.streamState[r] = "open", !.chan[s][role].streams = Append(@, r)],
         s, role, r)

StreamAttach(r, s, role) ==
  /\ streamState[r] = "idle"
  /\ Commit(OnStream(Heap, r, s, role), 0)

\* A sequence without its occurrences of x.
RECURSIVE SeqRemove(_, _)
SeqRemove(q, x) ==
  IF q = <<>> THEN <<>>
  ELSE IF Head(q) = x THEN SeqRemove(Tail(q), x)
       ELSE <<Head(q)>> \o SeqRemove(Tail(q), x)

\* req.on('close') of a stream: the response leaves channel.streams.
OnStreamClose(H, r) ==
  [H EXCEPT !.streamState[r] = "closed",
            !.chan = [s \in DOMAIN H.chan |-> [role \in Roles |->
                        [H.chan[s][role] EXCEPT !.streams = SeqRemove(@, r)]]]]

StreamClose(r) ==
  /\ streamState[r] = "open"
  /\ Commit(OnStreamClose(Heap, r), 0)

\* POST /api/send/<session>?role=<role> with body {role, message}: 400 on a
\* bad role, else handlePayload.
OnSend(H, s, role, f) ==
  IF role \notin Roles THEN H ELSE handlePayload(H, s, role, f)

HttpSend(s, role, f) ==
  /\ f # InvalidJson
  /\ Commit(OnSend(Heap, s, role, f), 1)

\* What the routers read from a message that is an array of frames: an
\* object without type or id.
ArrayAsFrame(fs) == Frame("undefined", 0, "")

\* The batches a client may POST: two frames of the role's own types.
Batches(role) ==
  IF role = "proxy"
  THEN {<<Frame("http-request", 1, ""), Frame("connect-start", 1, "")>>,
        <<Frame("connect-start", 1, ""), Frame("connect-end", 1, "")>>}
  ELSE {<<Frame("http-response", 1, ""), Frame("connect-ack", 1, "")>>,
        <<Frame("connect-ack", 1, ""), Frame("connect-end", 1, "")>>}

\* POST /api/send whose message is an array: typeof message is 'object', so
\* the array itself is passed to handlePayload.
OnSendBatch(H, s, role, fs) ==
  IF role \notin Roles THEN H ELSE handlePayload(H, s, role, ArrayAsFrame(fs))

HttpSendBatch(s, role, fs) ==
  /\ Len(fs) > 1
  /\ Commit(OnSendBatch(Heap, s, role, fs), 1)

RelayNext ==
  \/ \E w \in Sockets : WsConnect(w)
  \/ \E w \in Sockets, f \in Payloads : WsMessage(w, f)
  \/ \E w \in Sockets : WsClose(w)
  \/ \E r \in Streams, s \in Sessions, role \in Roles \cup {"admin"} : StreamAttach(r, s, role)
  \/ \E r \in Streams : StreamClose(r)
  \/ \E s \in Sessions, role \in Roles, f \in Payloads : HttpSend(s, role, f)
  \/ \E s \in Sessions : HttpSend(s, "admin", Frame("http-request", 1, ""))
  \/ \E s \in Sessions, role \in Roles : \E fs \in Batches(role) : HttpSendBatch(s, role, fs)

SpecRelay == RelayInit /\ [][RelayNext]_relayVars


(***************************************************************************)
(* Claims about the relay, checked under SpecRelay.                        *)
(***************************************************************************)
\* The frames of a step's output that went to channel (s, r), in order.
RECURSIVE FramesTo(_, _, _)
FramesTo(out, s, r) ==
  IF out = <<>> THEN <<>>
  ELSE IF Head(out).session = s /\ Head(out).role = r /\ Head(out).to # "close"
       THEN <<Head(out).frame>> \o FramesTo(Tail(out), s, r)
       ELSE FramesTo(Tail(out), s, r)

\* The frames of a step's output written to socket w, in order.
RECURSIVE FramesToWs(_, _)
FramesToWs(out, w) ==
  IF out = <<>> THEN <<>>
  ELSE IF Head(out).to = "ws" /\ Head(out).n = w
       THEN <<Head(out).frame>> \o FramesToWs(Tail(out), w)
       ELSE FramesToWs(Tail(out), w)

CountOf(q, x) == Cardinality({k \in 1..Len(q) : q[k] = x})

IsPrefix(p, q) == Len(p) <= Len(q) /\ SubSeq(q, 1, Len(p)) = p

ClosedWith(out, w, reason) ==
  \E k \in 1..Len(out) :
    out[k].to = "close" /\ out[k].n = w /\ out[k].frame.msg = reason

\* The step is the close event of socket w.
ClosesNow(w) == wsState[w] \in {"OPEN", "CLOSING"} /\ wsState'[w] = "CLOSED"

\* C1: a socket that stops being its channel's socket is no longer open after
\* the step; when a hello displaces an open socket the relay closes it with the
\* reason "Replaced by new connection", and whatever a step writes for a role
\* over a persistent socket goes to the socket the channel holds after it.
C1_OneLiveSocket ==
  [][/\ \A s \in Sessions, r \in Roles :
          LET old == chan[s][r].ws
              new == chan'[s][r].ws
          IN (old # NoWs /\ new # old) =>
               /\ wsState'[old] # "OPEN"
               /\ (new # NoWs /\ wsState[old] = "OPEN") =>
                     ClosedWith(sent', old, "Replaced by new connection")
      /\ \A k \in 1..Len(sent') :
          (sent'[k].to = "ws" /\ sent'[k].role \in Roles) =>
             /\ chan'[sent'[k].session][sent'[k].role].ws = sent'[k].n
             /\ wsState'[sent'[k].n] = "OPEN"
     ]_relayVars

\* C1 witness: socket 2 has just displaced the open socket 1 of the LAN channel.
C1_Witness ==
  /\ chan["s1"]["lan"].ws = 2
  /\ wsState[1] = "CLOSING"
  /\ wsState[2] = "OPEN"
  /\ sent = <<Out("close", 1, "", "", Frame("<close>", 0, "Replaced by new connection")),
              Out("ws", 2, "s1", "lan", HelloAck("lan", "s1"))>>

\* C2: when a socket registered as the LAN of a session closes, that step hands
\* the proxy channel exactly one http-response "LAN disconnected" per id of
\* requests and one connect-error "LAN disconnected" per id of tunnels recorded
\* with origin proxy, nothing else, and leaves both maps empty.
C2_LanDropFailsOutstanding ==
  [][\A w \in Sockets :
       (ClosesNow(w) /\ wsMeta[w].role = "lan") =>
         LET s == wsMeta[w].session
             got == FramesTo(sent', s, "proxy")
             reqIds == MapIds(SeqFilterSrc(requests[s], "proxy"))
             tunIds == MapIds(SeqFilterSrc(tunnels[s], "proxy"))
         IN /\ requests'[s] = <<>>
            /\ tunnels'[s] = <<>>
            /\ \A i \in reqIds :
                 CountOf(got, Frame("http-response", i, "LAN disconnected")) = 1
            /\ \A i \in tunIds :
                 CountOf(got, Frame("connect-error", i, "LAN disconnected")) = 1
            /\ Len(got) = Cardinality(reqIds) + Cardinality(tunIds)
     ]_relayVars

\* C2 witness: the LAN socket has closed with one request and one tunnel
\* outstanding, and both terminal frames were handed to the proxy channel.
C2_Witness ==
  /\ wsState[1] = "CLOSED"
  /\ requests["s1"] = <<>>
  /\ tunnels["s1"] = <<>>
  /\ FramesTo(sent, "s1", "proxy") =
       <<Frame("http-response", 1, "LAN disconnected"),
         Frame("connect-error", 1, "LAN disconnected")>>

\* C3: when a socket registered as the proxy of a session closes, that step
\* leaves no proxy-originated id in requests or tunnels and hands the LAN
\* channel exactly one connect-end per proxy-originated tunnel id, nothing else.
C3_ProxyDropEndsTunnels ==
  [][\A w \in Sockets :
       (ClosesNow(w) /\ wsMeta[w].role = "proxy") =>
         LET s == wsMeta[w].session
             got == FramesTo(sent', s, "lan")
             tunIds == MapIds(SeqFilterSrc(tunnels[s], "proxy"))
         IN /\ SeqFilterSrc(requests'[s], "proxy") = <<>>
            /\ SeqFilterSrc(tunnels'[s], "proxy") = <<>>
            /\ \A i \in tunIds : CountOf(got, Frame("connect-end", i, "")) = 1
            /\ Len(got) = Cardinality(tunIds)
     ]_relayVars

\* C3 witness: the proxy socket has closed with a request and a tunnel
\* outstanding; the LAN channel was handed the tunnel's connect-end.
C3_Witness ==
  /\ wsState[1] = "CLOSED"
  /\ requests["s1"] = <<>>
  /\ tunnels["s1"] = <<>>
  /\ nMsgs >= 3
  /\ FramesTo(sent, "s1", "lan") = <<Frame("connect-end", 1, "")>>

\* C8 (as claimed): a hello that installs a socket in a channel delivers the
\* channel's queued frames to that socket, in FIFO order and ahead of anything
\* else, and leaves the queue empty.
C8_ConnectDrainsQueue ==
  [][\A s \in Sessions, r \in Roles :
       LET w == chan'[s][r].ws IN
       (w # NoWs /\ chan[s][r].ws # w /\ wsState'[w] = "OPEN") =>
          /\ chan'[s][r].queue = <<>>
          /\ IsPrefix(chan[s][r].queue, FramesToWs(sent', w))
     ]_relayVars

C10_BadHelloRejected ==
  [][\A w \in Sockets :
       (/\ wsMeta'[w] # wsMeta[w]
        /\ wsMeta'[w] # NoMeta
        /\ \/ wsMeta'[w].role \notin Roles
           \/ chan'[wsMeta'[w].session][wsMeta'[w].role].ws # w) =>
          /\ \E k \in 1..Len(sent') :
               sent'[k].to = "ws" /\ sent'[k].n = w /\ sent'[k].frame.type = "error"
          /\ wsState'[w] # "OPEN"
          /\ \A s \in Sessions, r \in Roles : chan[s][r].ws # w => chan'[s][r].ws # w
          /\ \A k \in 1..Len(sent') : sent'[k].frame.type # "hello-ack"
     ]_relayVars

\* C7 (as claimed): frames of one id keep their order through the relay's
\* queue: a step never delivers a frame to a role's socket or stream while an
\* earlier accepted frame of the same id still waits in that role's queue.
C7_PerIdOrderKept ==
  \A k \in 1..Len(sent) :
    (sent[k].to \in {"ws", "stream"} /\ sent[k].role \in Roles /\ sent[k].frame.id # 0) =>
      \A j \in 1..Len(chan[sent[k].session][sent[k].role].queue) :
        chan[sent[k].session][sent[k].role].queue[j].id # sent[k].frame.id

\* The ids of a map, as a set.
IdSet(m) == {m[k].id : k \in 1..Len(m)}

\* C11: whatever the relay's state, a frame from the LAN is handed to the
\* proxy channel exactly when its id is recorded with origin proxy in the map
\* of its type, and to no other channel; http-response removes its id from
\* requests, connect-error and connect-end remove theirs from tunnels, and
\* every other entry of both maps is left as it was.
C11_LanFramesFollowTheMaps ==
  \A s \in Sessions, ty \in FromLanTypes, i \in Ids :
    LET f == Frame(ty, i, "")
        H == handlePayload(Heap, s, "lan", f)
        isResp == ty = "http-response"
        m == IF isResp THEN requests[s] ELSE tunnels[s]
        recorded == \E k \in 1..Len(m) : m[k].id = i /\ m[k].src = "proxy"
    IN /\ FramesTo(H.sent, s, "proxy") = IF recorded THEN <<f>> ELSE <<>>
       /\ FramesTo(H.sent, s, "lan") = <<>>
       /\ H.requests[s] = IF isResp THEN SelectSeq(requests[s], LAMBDA e : e.id # i)
                          ELSE requests[s]
       /\ H.tunnels[s] = IF ty \in {"connect-error", "connect-end"}
                         THEN SelectSeq(tunnels[s], LAMBDA e : e.id # i)
                         ELSE tunnels[s]

\* C11 witness: the LAN's http-response of a recorded request has just been
\* handed to the proxy's socket and the entry is gone, the tunnel entry kept.
C11_Witness ==
  /\ requests["s1"] = <<>>
  /\ tunnels["s1"] # <<>>
  /\ Len(sent) = 1
  /\ sent[1].to = "ws"
  /\ sent[1].role = "proxy"
  /\ sent[1].frame = Frame("http-response", 1, "")

\* C12: an id enters a session's requests only in a step that hands the
\* http-request of that id to the LAN channel (socket, stream or queue), and a
\* step that routes an http-response of an id to the proxy channel (a stream
\* attach routes nothing, it delivers what was queued) leaves that id out of
\* requests; so every recorded id was handed to the LAN and has had no
\* terminal frame routed to the proxy since.
C12_RequestsAreOutstanding ==
  [][\A s \in Sessions, i \in Ids :
       /\ (i \in IdSet(requests'[s]) /\ i \notin IdSet(requests[s])) =>
             CountOf(FramesTo(sent', s, "lan"), Frame("http-request", i, "")) = 1
       /\ (/\ streamState' = streamState
           /\ \E k \in 1..Len(sent') :
              /\ sent'[k].session = s /\ sent'[k].role = "proxy"
              /\ sent'[k].frame.type = "http-response" /\ sent'[k].frame.id = i) =>
             i \notin IdSet(requests'[s])
     ]_relayVars

\* C12 witness: request 1 is recorded and its http-request was just written to
\* the LAN's socket.
C12_Witness ==
  /\ requests["s1"] = <<Entry(1, "proxy")>>
  /\ sent = <<Out("ws", 1, "s1", "lan", Frame("http-request", 1, ""))>>

\* The types each role may send to be routed.
Routable(role) == IF role = "proxy" THEN FromProxyTypes ELSE FromLanTypes

\* C13: whatever the relay's state, a frame whose type its source role may not
\* send yields exactly one error frame for the sender's own channel, nothing
\* for the counterpart channel, and leaves requests and tunnels as they were.
C13_UnknownTypeAnswered ==
  \A s \in Sessions, role \in Roles, f \in DataPayloads :
    f.type \notin Routable(role) =>
      LET H == handlePayload(Heap, s, role, f)
          own == FramesTo(H.sent, s, role)
          other == FramesTo(H.sent, s, IF role = "proxy" THEN "lan" ELSE "proxy")
      IN /\ Len(own) = 1
         /\ own[1].type = "error"
         /\ other = <<>>
         /\ H.requests = requests
         /\ H.tunnels = tunnels

\* C13 witness: the proxy's socket has just been answered the error frame of an
\* unroutable type while a request of the session is outstanding.
C13_Witness ==
  /\ requests["s1"] # <<>>
  /\ Len(sent) = 1
  /\ sent[1].to = "ws"
  /\ sent[1].role = "proxy"
  /\ sent[1].frame = ErrorFrame("Unknown message type from proxy")

\* The frames of a batch posted one by one.
RECURSIVE SendEach(_, _, _, _)
SendEach(H, s, role, fs) ==
  IF fs = <<>> THEN H
  ELSE SendEach(OnSend(H, s, role, Head(fs)), s, role, Tail(fs))

\* C14 (as claimed): whatever the relay's state, a POST /api/send whose
\* message is an array of frames leaves the relay's channels, requests and
\* tunnels, and hands out the frames, exactly as posting the frames of the
\* array one by one in array order.
C14_BatchRoutedFrameByFrame ==
  \A s \in Sessions, role \in Roles : \A fs \in Batches(role) :
    LET A == OnSendBatch(Heap, s, role, fs)
        B == SendEach(Heap, s, role, fs)
    IN /\ A.chan = B.chan
       /\ A.requests = B.requests
       /\ A.tunnels = B.tunnels
       /\ A.sent = B.sent

(***************************************************************************)
(* The local proxy (src/src/proxy.js, second revision, lines 308-678).     *)
(***************************************************************************)
\* ensureConnected(): the socket exists once runWsMode has run.
ensureConnected == pWs = "OPEN"

\* if (!res.headersSent) res.writeHead(status)
WriteHeadOnce(heads, r, status) ==
  [heads EXCEPT ![r] = IF @ = <<>> THEN <<status>> ELSE @]

\* sendToServer(msg) over the socket: safeSend drops it unless OPEN.
Delivered == pWs = "OPEN"

\* ws.on('open'): the proxy sends its hello.
ProxyWsOpen ==
  /\ pWs = "CONNECTING"
  /\ pWs' = "OPEN"
  /\ pSent' = <<Hello("proxy", "s1", ProtocolVersion)>>
  /\ UNCHANGED <<httpSide, tunSide, relReq, relTun, inbox, nFwd>>
  /\ UNCHANGED <<relayVars, lanVars, agentVars, ioVars, srvVars, codecVars, pollVars>>

\* handleHttpRequest up to the await of collectRequestBody.
HttpRequestArrives(r) ==
  /\ reqPhase[r] = "idle"
  /\ IF ~ensureConnected
     THEN /\ resHead' = [resHead EXCEPT ![r] = Append(@, 503)]
          /\ resEnd' = [resEnd EXCEPT ![r] = @ + 1]
          /\ reqPhase' = [reqPhase EXCEPT ![r] = "done"]
     ELSE /\ reqPhase' = [reqPhase EXCEPT ![r] = "reading"]
          /\ UNCHANGED <<resHead, resEnd>>
  /\ pSent' = <<>>
  /\ UNCHANGED <<pWs, pendingHttp, timers, tunSide, relReq, relTun, inbox, nFwd>>
  /\ UNCHANGED <<relayVars, lanVars, agentVars, ioVars, srvVars, codecVars, pollVars>>

\* handleHttpRequest after the await: the body failed (500), the Host header
\* is missing (400), or the timer is armed, the entry stored and the request
\* sent.
HttpRequestBody(r, outcome) ==
  /\ reqPhase[r] = "reading"
  /\ reqPhase' = [reqPhase EXCEPT ![r] = "done"]
  /\ IF outcome = "ok"
     THEN /\ timers' = timers \cup {r}
          /\ pendingHttp' = pendingHttp \cup {r}
          /\ pSent' = IF Delivered THEN <<Frame("http-request", r, "")>> ELSE <<>>
          /\ relReq' = IF Delivered THEN relReq \cup {r} ELSE relReq
          /\ UNCHANGED <<resHead, resEnd>>
     ELSE /\ resHead' = [resHead EXCEPT ![r] = Append(@, IF outcome = "bodyError" THEN 500 ELSE 400)]
          /\ resEnd' = [resEnd EXCEPT ![r] = @ + 1]
          /\ pSent' = <<>>
          /\ UNCHANGED <<timers, pendingHttp, relReq>>
  /\ UNCHANGED <<pWs, tunSide, relTun, inbox, nFwd>>
  /\ UNCHANGED <<relayVars, lanVars, agentVars, ioVars, srvVars, codecVars, pollVars>>

\* A timer callback that empties the whole pendingHttp map.
TimerFires_ForgetsAll(r) ==
  /\ r \in timers
  /\ timers' = timers \ {r}
  /\ pendingHttp' = {}
  /\ resHead' = WriteHeadOnce(resHead, r, 504)
  /\ resEnd' = [resEnd EXCEPT ![r] = @ + 1]
  /\ pSent' = <<>>
  /\ UNCHANGED <<pWs, reqPhase, tunSide, relReq, relTun, inbox, nFwd>>
  /\ UNCHANGED <<relayVars, lanVars, agentVars, ioVars, srvVars, codecVars, pollVars>>

\* The setTimeout callback of handleHttpRequest.
TimerFires(r) ==
  /\ r \in timers
  /\ timers' = timers \ {r}
  /\ pendingHttp' = pendingHttp \ {r}
  /\ resHead' = WriteHeadOnce(resHead, r, 504)
  /\ resEnd' = [resEnd EXCEPT ![r] = @ + 1]
  /\ pSent' = <<>>
  /\ UNCHANGED <<pWs, reqPhase, tunSide, relReq, relTun, inbox, nFwd>>
  /\ UNCHANGED <<relayVars, lanVars, agentVars, ioVars, srvVars, codecVars, pollVars>>

\* case 'http-response' that leaves the request's timer armed.
OnHttpResponse_KeepsTimer(f) ==
  /\ IF f.id \in pendingHttp
     THEN /\ pendingHttp' = pendingHttp \ {f.id}
          /\ resHead' = WriteHeadOnce(resHead, f.id, IF f.msg # "" THEN 502 ELSE 200)
          /\ resEnd' = [resEnd EXCEPT ![f.id] = @ + 1]
     ELSE UNCHANGED <<pendingHttp, resHead, resEnd>>
  /\ pSent' = <<>>
  /\ UNCHANGED <<timers, reqPhase, tunSide>>

\* handleServerMessage, case 'http-response'.
OnHttpResponse(f) ==
  /\ IF f.id \in pendingHttp
     THEN /\ timers' = timers \ {f.id}
          /\ pendingHttp' = pendingHttp \ {f.id}
          /\ resHead' = WriteHeadOnce(resHead, f.id, IF f.msg # "" THEN 502 ELSE 200)
          /\ resEnd' = [resEnd EXCEPT ![f.id] = @ + 1]
     ELSE UNCHANGED <<timers, pendingHttp, resHead, resEnd>>
  /\ pSent' = <<>>
  /\ UNCHANGED <<reqPhase, tunSide>>

\* The connect-data frames of a sequence of chunks.
DataFrames(c, ks) == [j \in 1..Len(ks) |-> Frame("connect-data", c, ToString(ks[j]))]

\* case 'connect-ack' that flushes the queue ahead of the head bytes.
OnTunnelFrame_QueueBeforeHead(f) ==
  LET c == f.id
      tn == pTunnels[c]
      ks == tn.queue \o (IF tn.head # 0 THEN <<tn.head>> ELSE <<>>)
  IN
  /\ IF ~tn.inMap THEN /\ UNCHANGED tunSide
                       /\ pSent' = <<>>
     ELSE IF f.type = "connect-ack"
     THEN /\ clientLog' = [clientLog EXCEPT ![c] = Append(@, "200")]
          /\ pTunnels' = [pTunnels EXCEPT ![c].acked = TRUE, ![c].queue = <<>>]
          /\ pSent' = IF Delivered THEN DataFrames(c, ks) ELSE <<>>
          /\ upData' = IF Delivered THEN [upData EXCEPT ![c] = @ \o ks] ELSE upData
          /\ UNCHANGED <<cPhase, nArrived>>
     ELSE IF f.type = "connect-error"
     THEN /\ clientLog' = [clientLog EXCEPT ![c] = @ \o <<"502", "end">>]
          /\ pTunnels' = [pTunnels EXCEPT ![c].inMap = FALSE]
          /\ pSent' = <<>>
          /\ UNCHANGED <<cPhase, nArrived, upData>>
     ELSE IF f.type = "connect-data"
     THEN /\ clientLog' = [clientLog EXCEPT ![c] = Append(@, "data")]
          /\ pSent' = <<>>
          /\ UNCHANGED <<pTunnels, cPhase, nArrived, upData>>
     ELSE /\ clientLog' = [clientLog EXCEPT ![c] = Append(@, "end")]
          /\ pTunnels' = [pTunnels EXCEPT ![c].inMap = FALSE]
          /\ pSent' = <<>>
          /\ UNCHANGED <<cPhase, nArrived, upData>>
  /\ UNCHANGED httpSide

\* handleServerMessage, the connect-* cases: the status line goes out whatever
\* tunnel.acked says; connect-ack sends head, then the queue from its front.
OnTunnelFrame(f) ==
  LET c == f.id
      tn == pTunnels[c]
      ks == (IF tn.head # 0 THEN <<tn.head>> ELSE <<>>) \o tn.queue
  IN
  /\ IF ~tn.inMap THEN /\ UNCHANGED tunSide
                       /\ pSent' = <<>>
     ELSE IF f.type = "connect-ack"
     THEN /\ clientLog' = [clientLog EXCEPT ![c] = Append(@, "200")]
          /\ pTunnels' = [pTunnels EXCEPT ![c].acked = TRUE, ![c].queue = <<>>]
          /\ pSent' = IF Delivered THEN DataFrames(c, ks) ELSE <<>>
          /\ upData' = IF Delivered THEN [upData EXCEPT ![c] = @ \o ks] ELSE upData
          /\ UNCHANGED <<cPhase, nArrived>>
     ELSE IF f.type = "connect-error"
     THEN /\ clientLog' = [clientLog EXCEPT ![c] = @ \o <<"502", "end">>]
          /\ pTunnels' = [pTunnels EXCEPT ![c].inMap = FALSE]
          /\ pSent' = <<>>
          /\ UNCHANGED <<cPhase, nArrived, upData>>
     ELSE IF f.type = "connect-data"
     THEN /\ clientLog' = [clientLog EXCEPT ![c] = Append(@, "data")]
          /\ pSent' = <<>>
          /\ UNCHANGED <<pTunnels, cPhase, nArrived, upData>>
     ELSE /\ clientLog' = [clientLog EXCEPT ![c] = Append(@, "end")]
          /\ pTunnels' = [pTunnels EXCEPT ![c].inMap = FALSE]
          /\ pSent' = <<>>
          /\ UNCHANGED <<cPhase, nArrived, upData>>
  /\ UNCHANGED httpSide

\* ws.on('message'): the next frame from the relay reaches handleServerMessage.
ServerMessage ==
  /\ pWs = "OPEN"
  /\ inbox # <<>>
  /\ inbox' = Tail(inbox)
  /\ IF Head(inbox).type = "http-response"
     THEN OnHttpResponse(Head(inbox))
     ELSE OnTunnelFrame(Head(inbox))
  /\ UNCHANGED <<pWs, relReq, relTun, nFwd>>
  /\ UNCHANGED <<relayVars, lanVars, agentVars, ioVars, srvVars, codecVars, pollVars>>

\* A close handler that fails the pending requests and leaves the tunnels.
ProxyWsClose_KeepsTunnels ==
  /\ pWs \in {"CONNECTING", "OPEN"}
  /\ pWs' = "CLOSED"
  /\ timers' = timers \ pendingHttp
  /\ resHead' = [r \in Reqs |->
                  IF r \in pendingHttp /\ resHead[r] = <<>> THEN <<502>> ELSE resHead[r]]
  /\ resEnd' = [r \in Reqs |-> IF r \in pendingHttp THEN resEnd[r] + 1 ELSE resEnd[r]]
  /\ pendingHttp' = {}
  /\ relReq' = {}
  /\ relTun' = [c \in Tuns |-> "none"]
  /\ inbox' = <<>>
  /\ pSent' = <<>>
  /\ UNCHANGED <<reqPhase, tunSide, nFwd>>
  /\ UNCHANGED <<relayVars, lanVars, agentVars, ioVars, srvVars, codecVars, pollVars>>

\* ws.on('close') -> cleanupPendingWithMessage; the relay's cleanupWs forgets
\* what the proxy originated, and frames in flight are lost.
ProxyWsClose ==
  /\ pWs \in {"CONNECTING", "OPEN"}
  /\ pWs' = "CLOSED"
  /\ timers' = timers \ pendingHttp
  /\ resHead' = [r \in Reqs |->
                  IF r \in pendingHttp /\ resHead[r] = <<>> THEN <<502>> ELSE resHead[r]]
  /\ resEnd' = [r \in Reqs |-> IF r \in pendingHttp THEN resEnd[r] + 1 ELSE resEnd[r]]
  /\ pendingHttp' = {}
  /\ clientLog' = [c \in Tuns |->
                    IF pTunnels[c].inMap THEN Append(clientLog[c], "end") ELSE clientLog[c]]
  /\ pTunnels' = [c \in Tuns |-> [pTunnels[c] EXCEPT !.inMap = FALSE]]
  /\ relReq' = {}
  /\ relTun' = [c \in Tuns |-> "none"]
  /\ inbox' = <<>>
  /\ pSent' = <<>>
  /\ UNCHANGED <<reqPhase, cPhase, nArrived, upData, nFwd>>
  /\ UNCHANGED <<relayVars, lanVars, agentVars, ioVars, srvVars, codecVars, pollVars>>

\* handleConnect: 503 and destroy when not connected, else the tunnel is stored
\* and connect-start sent.
ConnectArrives(c, withHead) ==
  /\ cPhase[c] = "idle"
  /\ IF ~ensureConnected
     THEN /\ clientLog' = [clientLog EXCEPT ![c] = @ \o <<"503", "destroy">>]
          /\ cPhase' = [cPhase EXCEPT ![c] = "refused"]
          /\ pSent' = <<>>
          /\ UNCHANGED <<pTunnels, relTun, nArrived>>
     ELSE /\ pTunnels' = [pTunnels EXCEPT ![c] =
                            [inMap |-> TRUE, acked |-> FALSE, queue |-> <<>>,
                             head |-> IF withHead THEN 1 ELSE 0]]
          /\ nArrived' = [nArrived EXCEPT ![c] = IF withHead THEN 1 ELSE 0]
          /\ cPhase' = [cPhase EXCEPT ![c] = "open"]
          /\ pSent' = <<Frame("connect-start", c, "")>>
          /\ relTun' = [relTun EXCEPT ![c] = "started"]
          /\ UNCHANGED clientLog
  /\ UNCHANGED upData
  /\ UNCHANGED <<pWs, httpSide, relReq, inbox, nFwd>>
  /\ UNCHANGED <<relayVars, lanVars, agentVars, ioVars, srvVars, codecVars, pollVars>>

\* clientSocket.on('data'): queued until the tunnel object is acked.
ClientData(c) ==
  LET k == nArrived[c] + 1 IN
  /\ cPhase[c] = "open"
  /\ nArrived[c] - (IF pTunnels[c].head # 0 THEN 1 ELSE 0) < MaxChunks
  /\ nArrived' = [nArrived EXCEPT ![c] = k]
  /\ IF ~pTunnels[c].acked
     THEN /\ pTunnels' = [pTunnels EXCEPT ![c].queue = Append(@, k)]
          /\ pSent' = <<>>
          /\ UNCHANGED upData
     ELSE /\ pSent' = IF Delivered THEN DataFrames(c, <<k>>) ELSE <<>>
          /\ upData' = IF Delivered THEN [upData EXCEPT ![c] = Append(@, k)] ELSE upData
          /\ UNCHANGED pTunnels
  /\ UNCHANGED <<pWs, httpSide, cPhase, clientLog, relReq, relTun, inbox, nFwd>>
  /\ UNCHANGED <<relayVars, lanVars, agentVars, ioVars, srvVars, codecVars, pollVars>>

\* clientSocket.on('end') / on('error').
ClientEnd(c) ==
  /\ cPhase[c] = "open"
  /\ cPhase' = [cPhase EXCEPT ![c] = "ended"]
  /\ pTunnels' = [pTunnels EXCEPT ![c].inMap = FALSE]
  /\ pSent' = IF Delivered THEN <<Frame("connect-end", c, "")>> ELSE <<>>
  /\ UNCHANGED <<pWs, httpSide, clientLog, nArrived, upData, relReq, relTun, inbox, nFwd>>
  /\ UNCHANGED <<relayVars, lanVars, agentVars, ioVars, srvVars, codecVars, pollVars>>

\* The frames the relay forwards to the proxy.
ForwardFrames ==
  {Frame("http-response", r, m) : r \in Reqs, m \in {"", "LAN disconnected"}}
  \cup {Frame(ty, c, "") : ty \in {"connect-ack", "connect-data", "connect-end"}, c \in Tuns}
  \cup {Frame("connect-error", c, "LAN disconnected") : c \in Tuns}

\* routeFromLan and the LAN branch of cleanupWs, seen from the proxy: a frame
\* is forwarded only for an id the relay holds; http-response, connect-error
\* and connect-end release the id.  The LAN acknowledges a tunnel at most once
\* and sends data or end only after its acknowledgement.
RelayForward(f) ==
  /\ pWs = "OPEN"
  /\ nFwd < MaxFwd
  /\ Len(inbox) < MaxInbox
  /\ IF f.type = "http-response"
     THEN /\ f.id \in relReq
          /\ relReq' = relReq \ {f.id}
          /\ UNCHANGED relTun
     ELSE /\ relTun[f.id] # "none"
          /\ f.type = "connect-ack" => relTun[f.id] = "started"
          /\ f.type \in {"connect-data", "connect-end"} => relTun[f.id] = "acked"
          /\ relTun' = [relTun EXCEPT ![f.id] =
                          IF f.type = "connect-ack" THEN "acked"
                          ELSE IF f.type = "connect-data" THEN @
                          ELSE "none"]
          /\ UNCHANGED relReq
  /\ inbox' = Append(inbox, f)
  /\ nFwd' = nFwd + 1
  /\ pSent' = <<>>
  /\ UNCHANGED <<pWs, httpSide, tunSide>>
  /\ UNCHANGED <<relayVars, lanVars, agentVars, ioVars, srvVars, codecVars, pollVars>>

ProxyNext ==
  \/ ProxyWsOpen
  \/ ProxyWsClose
  \/ \E r \in Reqs : HttpRequestArrives(r)
  \/ \E r \in Reqs, o \in {"ok", "bodyError", "noHost"} : HttpRequestBody(r, o)
  \/ \E r \in Reqs : TimerFires(r)
  \/ ServerMessage
  \/ \E c \in Tuns, h \in BOOLEAN : ConnectArrives(c, h)
  \/ \E c \in Tuns : ClientData(c)
  \/ \E c \in Tuns : ClientEnd(c)
  \/ \E f \in ForwardFrames : RelayForward(f)

SpecProxy == RelayInit /\ [][ProxyNext]_vars

\* C4: a browser request never gets a second status line or a second end; once
\* its handler has run it has either been answered exactly once or is in
\* pendingHttp with its timer armed, and the timer is armed for exactly the
\* entries of pendingHttp.
C4_ExactlyOneResponse ==
  \A r \in Reqs :
    /\ Len(resHead[r]) <= 1
    /\ resEnd[r] = Len(resHead[r])
    /\ (r \in timers) <=> (r \in pendingHttp)
    /\ reqPhase[r] = "done" => ((resEnd[r] = 1) <=> (r \notin pendingHttp))
    /\ reqPhase[r] # "done" => (resEnd[r] = 0 /\ r \notin pendingHttp)

\* C4 witness: one request was answered by its timer while its http-response
\* was still to come, the other by an http-response, and the transport has
\* closed since.
C4_Witness ==
  /\ resHead[1] = <<504>> /\ resEnd[1] = 1
  /\ resHead[2] = <<200>> /\ resEnd[2] = 1
  /\ nFwd = 2
  /\ pWs = "CLOSED"

\* C5 (as claimed): the client socket of a CONNECT sees at most one status
\* line, either "200" or an error status, and an error status is followed by
\* the socket's close.
C5_ConnectOneOutcome ==
  \A c \in Tuns :
    LET log == clientLog[c]
        status == {k \in 1..Len(log) : log[k] \in {"200", "502", "503"}}
    IN /\ Cardinality(status) <= 1
       /\ \A k \in status :
            log[k] # "200" => (k < Len(log) /\ log[k + 1] \in {"end", "destroy"})

\* C15: for every CONNECT the chunks sent to the relay as connect-data are
\* the client's chunks in arrival order (head first, then the chunks queued
\* before the ack, then the later ones); none is sent before connect-ack, and
\* while the tunnel is acknowledged and the socket to the relay open every
\* chunk that has arrived has been sent.
C15_ClientBytesInOrder ==
  \A c \in Tuns :
    /\ upData[c] = [k \in 1..Len(upData[c]) |-> k]
    /\ Len(upData[c]) <= nArrived[c]
    /\ ~pTunnels[c].acked => upData[c] = <<>>
    /\ (pTunnels[c].acked /\ pWs = "OPEN") => Len(upData[c]) = nArrived[c]

\* C15 witness: head bytes, a chunk queued before the ack and a chunk that came
\* after it have all been sent.
C15_Witness ==
  /\ pTunnels[1].acked
  /\ pTunnels[1].head = 1
  /\ upData[1] = <<1, 2, 3>>
  /\ pSent = DataFrames(1, <<3>>)

\* C25: through a tunnel whose 200 line was written, every chunk the target
\* sent, which arrives as a connect-data frame of the tunnel's id, is written
\* to the client socket when the proxy handles the frame, also after the
\* client has ended its side; and the chunks sent on toward the target are
\* the client's chunks in arrival order.
C25_TunnelCarriesAllBytes ==
  [][\A c \in Tuns :
       /\ (/\ pWs = "OPEN" /\ pWs' = "OPEN"
           /\ inbox # <<>>
           /\ inbox' = Tail(inbox)
           /\ Head(inbox) = Frame("connect-data", c, "")
           /\ \E k \in 1..Len(clientLog[c]) : clientLog[c][k] = "200") =>
             clientLog'[c] = Append(clientLog[c], "data")
       /\ upData'[c] = [k \in 1..Len(upData'[c]) |-> k]]_vars

\* The step is the timer of request r firing (no frame is consumed and the
\* socket to the relay keeps its state).
TimerStep(r) == r \in timers /\ r \notin timers' /\ pWs' = pWs /\ inbox' = inbox

\* The step hands the proxy an http-response whose id is not pending.
LateResponseStep ==
  /\ pWs = "OPEN" /\ pWs' = "OPEN"
  /\ inbox # <<>> /\ inbox' = Tail(inbox)
  /\ Head(inbox).type = "http-response"
  /\ Head(inbox).id \notin pendingHttp

\* C16: the timer of a pending request answers the browser 504, once, and
\* removes that entry and no other; every other response, every other timer
\* and every tunnel is left as it was; an http-response whose id is no longer
\* pending changes nothing.
C16_TimeoutCancelsOneRequest ==
  [][/\ \A r \in Reqs :
          TimerStep(r) =>
            /\ r \in pendingHttp
            /\ resHead'[r] = <<504>>
            /\ resEnd'[r] = resEnd[r] + 1
            /\ pendingHttp' = pendingHttp \ {r}
            /\ timers' = timers \ {r}
            /\ \A q \in Reqs \ {r} : resHead'[q] = resHead[q] /\ resEnd'[q] = resEnd[q]
            /\ UNCHANGED tunSide
     /\ (LateResponseStep => UNCHANGED <<httpSide, tunSide>>)
     ]_vars

\* C16 witness: request 1 was answered 504 by its timer and its http-response,
\* which came later, was discarded; request 2 is still pending.
C16_Witness ==
  /\ pWs = "OPEN"
  /\ resHead[1] = <<504>> /\ resEnd[1] = 1
  /\ pendingHttp = {2} /\ timers = {2}
  /\ nFwd = 1 /\ inbox = <<>>
  /\ relReq = {2}

\* C17: when the socket to the relay closes, every pending request is answered
\* 502, once, and its timer cancelled, the client socket of every tunnel of
\* the map is ended, and pendingHttp and the tunnel map are empty afterwards.
C17_CloseFailsEverything ==
  [][(pWs # "CLOSED" /\ pWs' = "CLOSED") =>
       /\ \A r \in pendingHttp :
            /\ resHead'[r] = <<502>>
            /\ resEnd'[r] = resEnd[r] + 1
            /\ r \notin timers'
       /\ \A r \in Reqs \ pendingHttp : resHead'[r] = resHead[r] /\ resEnd'[r] = resEnd[r]
       /\ \A c \in Tuns :
            clientLog'[c] = IF pTunnels[c].inMap THEN Append(clientLog[c], "end")
                            ELSE clientLog[c]
       /\ pendingHttp' = {}
       /\ \A c \in Tuns : ~pTunnels'[c].inMap
     ]_vars

\* C17 witness: the socket closed with request 1 pending and tunnel 1 open.
C17_Witness ==
  /\ pWs = "CLOSED"
  /\ resHead[1] = <<502>> /\ resEnd[1] = 1
  /\ reqPhase[2] = "idle"
  /\ clientLog[1] = <<"200", "end">>
  /\ pendingHttp = {} /\ timers = {}
  /\ ~pTunnels[1].inMap

(***************************************************************************)
(* The LAN agent's tunnels (handleMessage of src/src/lan.js).              *)
(***************************************************************************)
\* send(msg): the frame joins the agent's output for its id (socket or outbox,
\* both first-in first-out).
LanSend(log, i, ty) == [log EXCEPT ![i] = Append(@, ty)]

\* case 'connect-start'.  A missing host or port is answered connect-error.
\* Without a tunnel proxy connectSocket() resolves at once with the socket
\* net.createConnection returns, still connecting: the agent sends connect-ack,
\* stores the socket and sets its listeners.  With a tunnel proxy the promise
\* stays pending until the proxy answers.
LanConnectStart(i, valid) ==
  /\ tgt[i] = "none"
  /\ IF ~valid
     THEN /\ lanLog' = LanSend(lanLog, i, "connect-error")
          /\ tgt' = [tgt EXCEPT ![i] = "invalid"]
          /\ UNCHANGED <<lTunnels, attached>>
     ELSE IF tunnelProxyUrl
     THEN /\ tgt' = [tgt EXCEPT ![i] = "connecting"]
          /\ UNCHANGED <<lTunnels, attached, lanLog>>
     ELSE /\ tgt' = [tgt EXCEPT ![i] = "connecting"]
          /\ lanLog' = LanSend(lanLog, i, "connect-ack")
          /\ lTunnels' = lTunnels \cup {i}
          /\ attached' = [attached EXCEPT ![i] = TRUE]
  /\ UNCHANGED <<tunnelProxyUrl, relayVars, proxyVars, agentVars, ioVars, srvVars, codecVars, pollVars>>

\* The connection to the target is established; through a tunnel proxy this
\* is the 200 that resolves connectThroughProxy and runs the .then branch.
TargetConnects(i) ==
  /\ tgt[i] = "connecting"
  /\ tgt' = [tgt EXCEPT ![i] = "connected"]
  /\ IF attached[i]
     THEN UNCHANGED <<lTunnels, attached, lanLog>>
     ELSE /\ lanLog' = LanSend(lanLog, i, "connect-ack")
          /\ lTunnels' = lTunnels \cup {i}
          /\ attached' = [attached EXCEPT ![i] = TRUE]
  /\ UNCHANGED <<tunnelProxyUrl, relayVars, proxyVars, agentVars, ioVars, srvVars, codecVars, pollVars>>

\* The socket fails: sock.on('error') when the listeners are set, else the
\* promise rejects into .catch; both send connect-error.
TargetFails(i) ==
  /\ tgt[i] \in {"connecting", "connected", "halfclosed"}
  /\ Len(lanLog[i]) < MaxLanLog
  /\ tgt' = [tgt EXCEPT ![i] = IF @ = "connecting" THEN "refused" ELSE "failed"]
  /\ lanLog' = LanSend(lanLog, i, "connect-error")
  /\ lTunnels' = lTunnels \ {i}
  /\ UNCHANGED <<attached, tunnelProxyUrl, relayVars, proxyVars, agentVars, ioVars, srvVars, codecVars, pollVars>>

\* sock.on('data')
TargetData(i) ==
  /\ tgt[i] \in {"connected", "halfclosed"}
  /\ attached[i]
  /\ Len(lanLog[i]) < MaxLanLog
  /\ lanLog' = LanSend(lanLog, i, "connect-data")
  /\ UNCHANGED <<tgt, lTunnels, attached, tunnelProxyUrl, relayVars, proxyVars, agentVars, ioVars, srvVars, codecVars, pollVars>>

\* sock.on('end')
TargetEnds(i) ==
  /\ tgt[i] \in {"connected", "halfclosed"}
  /\ attached[i]
  /\ Len(lanLog[i]) < MaxLanLog
  /\ tgt' = [tgt EXCEPT ![i] = "closed"]
  /\ lanLog' = LanSend(lanLog, i, "connect-end")
  /\ lTunnels' = lTunnels \ {i}
  /\ UNCHANGED <<attached, tunnelProxyUrl, relayVars, proxyVars, agentVars, ioVars, srvVars, codecVars, pollVars>>

\* case 'connect-data': written to a known tunnel, else connect-error
\* 'Unknown tunnel'.
LanConnectData(i) ==
  /\ tgt[i] # "none"
  /\ IF i \in lTunnels
     THEN UNCHANGED lanLog
     ELSE /\ Len(lanLog[i]) < MaxLanLog
          /\ lanLog' = LanSend(lanLog, i, "connect-error")
  /\ UNCHANGED <<tgt, lTunnels, attached, tunnelProxyUrl, relayVars, proxyVars, agentVars, ioVars, srvVars, codecVars, pollVars>>

\* case 'connect-end': sock.end() and the id leaves the map.
LanConnectEnd(i) ==
  /\ i \in lTunnels
  /\ lTunnels' = lTunnels \ {i}
  /\ tgt' = [tgt EXCEPT ![i] = IF @ = "connected" THEN "halfclosed" ELSE @]
  /\ UNCHANGED <<lanLog, attached, tunnelProxyUrl, relayVars, proxyVars, agentVars, ioVars, srvVars, codecVars, pollVars>>

LanInit ==
  /\ \E viaProxy \in BOOLEAN : LanStart(viaProxy)
  /\ ProxyStart
  /\ AgentStart("ws")
  /\ IoStart("lan")
  /\ SrvStart
  /\ CodecStart
  /\ PollStart
  /\ wsState = [w \in Sockets |-> "NEW"]
  /\ wsMeta = [w \in Sockets |-> NoMeta]
  /\ chan = [s \in Sessions |-> [r \in Roles |-> createChannel]]
  /\ requests = [s \in Sessions |-> <<>>]
  /\ tunnels = [s \in Sessions |-> <<>>]
  /\ streamState = [r \in Streams |-> "idle"]
  /\ sent = <<>>
  /\ nMsgs = 0

LanNext ==
  \/ \E i \in Attempts, valid \in BOOLEAN : LanConnectStart(i, valid)
  \/ \E i \in Attempts : TargetConnects(i)
  \/ \E i \in Attempts : TargetFails(i)
  \/ \E i \in Attempts : TargetData(i)
  \/ \E i \in Attempts : TargetEnds(i)
  \/ \E i \in Attempts : LanConnectData(i)
  \/ \E i \in Attempts : LanConnectEnd(i)

SpecLan == LanInit /\ [][LanNext]_vars

\* C6 (as claimed): for each connect-start the agent's first frame is
\* connect-ack or connect-error, connect-ack goes out at most once, no
\* connect-data precedes it, and an attempt whose connection to the target
\* failed was not also acknowledged.
C6_AckOrErrorNotBoth ==
  \A i \in Attempts :
    LET log == lanLog[i]
        has(ty) == \E k \in 1..Len(log) : log[k] = ty
    IN /\ log # <<>> => log[1] \in {"connect-ack", "connect-error"}
       /\ CountOf(log, "connect-ack") <= 1
       /\ \A k \in 1..Len(log) :
            log[k] = "connect-data" => \E j \in 1..(k - 1) : log[j] = "connect-ack"
       /\ tgt[i] = "refused" => ~(has("connect-ack") /\ has("connect-error"))


(***************************************************************************)
(* The LAN agent's transport: runWsMode, runHttpMode and the send loop of  *)
(* src/unnamed/part_001.  The proxy client of src/src/proxy.js selects its *)
(* transport with the same dispatch and the same fallback.                 *)
(***************************************************************************)
Transports == {"ws", "http", "auto"}

Min(a, b) == IF a < b THEN a ELSE b

Elems(q) == {q[k] : k \in 1..Len(q)}

\* runHttpMode as the fallback runs it: the hello is pushed on a fresh
\* outbox and the first turn of loop() takes it as the batch [hello] and
\* starts its POST.
runHttpMode ==
  /\ httpRuns' = httpRuns + 1
  /\ nFrames' = nFrames + 1
  /\ outbox' = <<>>
  /\ inflight' = <<nFrames + 1>>
  /\ firstPosted' = nFrames + 1
  /\ aOut' = [via |-> "http", frames |-> <<nFrames + 1>>]

\* ws.on('open'): opened = true and the hello goes out on the socket.
AgentWsOpen ==
  /\ aWs = "CONNECTING"
  /\ listening
  /\ aWs' = "OPEN"
  /\ opened' = TRUE
  /\ nFrames' = nFrames + 1
  /\ aOut' = [via |-> "ws", frames |-> <<nFrames + 1>>]
  /\ UNCHANGED <<transport, listening, httpRuns, ackedVia, outbox, inflight,
                 postResult, firstPosted>>
  /\ UNCHANGED <<relayVars, proxyVars, lanVars, ioVars, srvVars, codecVars, pollVars>>

\* A handler that falls back whenever fallback is allowed, opened or not.
AgentWsFails_AlwaysFallsBack(event) ==
  /\ \/ event = "error" /\ aWs \in {"CONNECTING", "OPEN"} /\ aWs' = "ERRORED"
     \/ event = "close" /\ aWs \in {"CONNECTING", "OPEN", "ERRORED"} /\ aWs' = "CLOSED"
  /\ IF listening /\ transport = "auto"
       THEN /\ listening' = FALSE
            /\ runHttpMode
       ELSE /\ aOut' = NoOut
            /\ UNCHANGED <<listening, httpRuns, nFrames, outbox, inflight, firstPosted>>
  /\ UNCHANGED <<transport, opened, ackedVia, postResult>>
  /\ UNCHANGED <<relayVars, proxyVars, lanVars, ioVars, srvVars, codecVars, pollVars>>

\* A fallback that leaves the socket's listeners in place.
AgentWsFails_KeepsListeners(event) ==
  /\ \/ event = "error" /\ aWs \in {"CONNECTING", "OPEN"} /\ aWs' = "ERRORED"
     \/ event = "close" /\ aWs \in {"CONNECTING", "OPEN", "ERRORED"} /\ aWs' = "CLOSED"
  /\ IF listening /\ ~opened /\ transport = "auto"
       THEN /\ listening' = listening
            /\ runHttpMode
       ELSE /\ aOut' = NoOut
            /\ UNCHANGED <<listening, httpRuns, nFrames, outbox, inflight, firstPosted>>
  /\ UNCHANGED <<transport, opened, ackedVia, postResult>>
  /\ UNCHANGED <<relayVars, proxyVars, lanVars, ioVars, srvVars, codecVars, pollVars>>

\* ws.on('error') and ws.on('close').  Either falls back only while the
\* socket never opened and fallback is allowed; fallback() removes the
\* listeners, so the socket's later events reach no handler.
AgentWsFails(event) ==
  /\ \/ event = "error" /\ aWs \in {"CONNECTING", "OPEN"} /\ aWs' = "ERRORED"
     \/ event = "close" /\ aWs \in {"CONNECTING", "OPEN", "ERRORED"} /\ aWs' = "CLOSED"
  /\ IF listening /\ ~opened /\ transport = "auto"
       THEN /\ listening' = FALSE
            /\ runHttpMode
       ELSE /\ aOut' = NoOut
            /\ UNCHANGED <<listening, httpRuns, nFrames, outbox, inflight, firstPosted>>
  /\ UNCHANGED <<transport, opened, ackedVia, postResult>>
  /\ UNCHANGED <<relayVars, proxyVars, lanVars, ioVars, srvVars, codecVars, pollVars>>

\* ws.on('message') with the relay's hello-ack: from here on the handlers
\* hold the sender (p) => safeSend(ws, p).
AgentHelloAck ==
  /\ aWs = "OPEN"
  /\ listening
  /\ ackedVia = "none"
  /\ ackedVia' = "ws"
  /\ aOut' = NoOut
  /\ UNCHANGED <<transport, aWs, opened, listening, httpRuns, outbox, inflight,
                 postResult, firstPosted, nFrames>>
  /\ UNCHANGED <<relayVars, proxyVars, lanVars, ioVars, srvVars, codecVars, pollVars>>

\* A handler hands a frame to the sender of the message it serves:
\* safeSend(ws, p) for a message that came over the socket (dropped unless
\* the socket is OPEN), outbox.push for one that came over the stream.
AgentReply ==
  /\ ackedVia # "none"
  /\ nFrames < MaxFrames
  /\ nFrames' = nFrames + 1
  /\ IF ackedVia = "ws"
       THEN /\ aOut' = IF aWs = "OPEN" THEN [via |-> "ws", frames |-> <<nFrames + 1>>]
                                       ELSE NoOut
            /\ UNCHANGED outbox
       ELSE /\ outbox' = Append(outbox, nFrames + 1)
            /\ aOut' = NoOut
  /\ UNCHANGED <<transport, aWs, opened, listening, httpRuns, ackedVia, inflight,
                 postResult, firstPosted>>
  /\ UNCHANGED <<relayVars, proxyVars, lanVars, ioVars, srvVars, codecVars, pollVars>>

\* buildBatch and the POST loop() starts with it: the first frame and then
\* further frames from the front while the batch has fewer than BATCH_COUNT
\* frames; the time and byte limits may stop it at any earlier length k.
LoopBuild(k) ==
  /\ httpRuns > 0
  /\ inflight = <<>>
  /\ outbox # <<>>
  /\ k \in 1..Min(BATCH_COUNT, Len(outbox))
  /\ inflight' = SubSeq(outbox, 1, k)
  /\ outbox' = SubSeq(outbox, k + 1, Len(outbox))
  /\ firstPosted' = IF firstPosted = 0 THEN Head(outbox) ELSE firstPosted
  /\ aOut' = [via |-> "http", frames |-> SubSeq(outbox, 1, k)]
  /\ UNCHANGED <<transport, aWs, opened, listening, httpRuns, ackedVia,
                 postResult, nFrames>>
  /\ UNCHANGED <<relayVars, proxyVars, lanVars, ioVars, srvVars, codecVars, pollVars>>

\* A catch branch that pushes the batch back behind the outbox.
PostDone_PutsBackBehind(outcome) ==
  /\ inflight # <<>>
  /\ postResult' = outcome
  /\ inflight' = <<>>
  /\ outbox' = IF outcome = "throws" THEN outbox \o inflight ELSE outbox
  /\ ackedVia' = IF outcome = "ok" /\ firstPosted \in Elems(inflight) /\ ackedVia = "none"
                   THEN "http" ELSE ackedVia
  /\ aOut' = NoOut
  /\ UNCHANGED <<transport, aWs, opened, listening, httpRuns, firstPosted, nFrames>>
  /\ UNCHANGED <<relayVars, proxyVars, lanVars, ioVars, srvVars, codecVars, pollVars>>

\* The end of the awaited POST in loop(): a response, ok or not, ends the
\* turn (a non-ok status is only logged); a rejected fetch runs the catch
\* branch, which unshifts the batch back, last frame first.  The relay
\* answers an accepted hello with hello-ack on the stream, after which the
\* handlers hold the sender (msg) => outbox.push(msg).
PostDone(outcome) ==
  /\ inflight # <<>>
  /\ postResult' = outcome
  /\ inflight' = <<>>
  /\ outbox' = IF outcome = "throws" THEN inflight \o outbox ELSE outbox
  /\ ackedVia' = IF outcome = "ok" /\ firstPosted \in Elems(inflight) /\ ackedVia = "none"
                   THEN "http" ELSE ackedVia
  /\ aOut' = NoOut
  /\ UNCHANGED <<transport, aWs, opened, listening, httpRuns, firstPosted, nFrames>>
  /\ UNCHANGED <<relayVars, proxyVars, lanVars, ioVars, srvVars, codecVars, pollVars>>

AgentInit ==
  /\ \E mode \in Transports : AgentStart(mode)
  /\ IoStart("lan")
  /\ SrvStart
  /\ CodecStart
  /\ PollStart
  /\ ProxyStart
  /\ LanStart(FALSE)
  /\ wsState = [w \in Sockets |-> "NEW"]
  /\ wsMeta = [w \in Sockets |-> NoMeta]
  /\ chan = [s \in Sessions |-> [r \in Roles |-> createChannel]]
  /\ requests = [s \in Sessions |-> <<>>]
  /\ tunnels = [s \in Sessions |-> <<>>]
  /\ streamState = [r \in Streams |-> "idle"]
  /\ sent = <<>>
  /\ nMsgs = 0

AgentNext ==
  \/ AgentWsOpen
  \/ \E event \in {"error", "close"} : AgentWsFails(event)
  \/ AgentHelloAck
  \/ AgentReply
  \/ \E k \in 1..BATCH_COUNT : LoopBuild(k)
  \/ \E outcome \in {"ok", "status", "throws"} : PostDone(outcome)

SpecAgent == AgentInit /\ [][AgentNext]_vars

\* C18: the transport follows the configured mode.  With ws the agent never
\* runs the fallback and puts nothing on the wire by POST; with http it has
\* no socket and puts nothing on the wire by the socket; with auto it starts
\* on the socket, and the fallback is started in exactly the steps in which
\* the socket errors or closes while it had not yet opened, so at most once;
\* from the switch on nothing goes out on the socket.
C18_ModeSelectsTransport ==
  [][/\ (httpRuns' # httpRuns) <=>
          (/\ transport = "auto"
           /\ httpRuns = 0
           /\ aWs = "CONNECTING"
           /\ aWs' \in {"ERRORED", "CLOSED"})
     /\ transport' = transport
     /\ (transport = "ws") => (httpRuns' = 0 /\ aOut'.via # "http")
     /\ (transport = "http") => (aWs' = "none" /\ httpRuns' = 1 /\ aOut'.via # "ws")
     /\ (transport = "auto" /\ httpRuns' = 0) =>
          (aWs' \in {"CONNECTING", "OPEN", "ERRORED", "CLOSED"} /\ aOut'.via # "http")
     /\ (httpRuns' > 0) => (aOut'.via # "ws")]_vars

\* An auto agent whose socket failed before opening, now posting a batch of
\* replies on the fallback.
C18_Witness ==
  /\ transport = "auto"
  /\ httpRuns = 1
  /\ aWs = "CLOSED"
  /\ ~opened
  /\ aOut.via = "http"
  /\ Len(aOut.frames) > 1

\* C19: under auto, once the socket has closed without a hello-ack having
\* been received on it, the long-poll transport has taken over.
C19_FallbackTakesOver ==
  (transport = "auto" /\ aWs = "CLOSED" /\ ackedVia # "ws") => httpRuns > 0

ClientRoles == {"lan", "proxy"}

\* send(msg): emitted when the socket is connected, else pushed on the
\* outbox.  The result is the new <<outbox, emitted>>.
send(box, connected, msg) ==
  IF connected THEN <<box, <<msg>>>> ELSE <<Append(box, msg), <<>>>>

\* A flush that pops the outbox from its end.
flush_LastFirst(box, connected) ==
  IF ~connected THEN <<box, <<>>>>
  ELSE <<<<>>, [k \in 1..Len(box) |-> box[Len(box) + 1 - k]]>>

\* flush(): nothing unless connected; else every frame of the outbox is
\* shifted off and emitted.
flush(box, connected) ==
  IF ~connected THEN <<box, <<>>>> ELSE <<<<>>, box>>

\* socket.on('connect'): socket.connected is true and the handler flushes.
IoConnect ==
  /\ ~ioConnected
  /\ ioConnected' = TRUE
  /\ ioOutbox' = flush(ioOutbox, TRUE)[1]
  /\ ioEmitted' = flush(ioOutbox, TRUE)[2]
  /\ UNCHANGED <<ioRole, ioSends, ioHandled>>
  /\ UNCHANGED <<relayVars, proxyVars, lanVars, agentVars, srvVars, codecVars, pollVars>>

\* socket.on('disconnect'): socket.connected is false; the handler sends
\* nothing.
IoDisconnect ==
  /\ ioConnected
  /\ ioConnected' = FALSE
  /\ ioEmitted' = <<>>
  /\ UNCHANGED <<ioRole, ioOutbox, ioSends, ioHandled>>
  /\ UNCHANGED <<relayVars, proxyVars, lanVars, agentVars, srvVars, codecVars, pollVars>>

\* A frame the client produces on its own schedule (a finished request, data
\* from a target or a client socket, a timer): it goes through send.
IoSend ==
  /\ ioSends < MaxIoSends
  /\ ioSends' = ioSends + 1
  /\ ioOutbox' = send(ioOutbox, ioConnected, ioSends + 1)[1]
  /\ ioEmitted' = send(ioOutbox, ioConnected, ioSends + 1)[2]
  /\ UNCHANGED <<ioRole, ioConnected, ioHandled>>
  /\ UNCHANGED <<relayVars, proxyVars, lanVars, agentVars, srvVars, codecVars, pollVars>>

\* socket.on('msg'): an incoming frame is handled; the handler may answer at
\* once through send (connect-error for an invalid connect-start or an
\* unknown tunnel).
IoMsg(answers) ==
  /\ ioConnected
  /\ ioHandled < MaxIoMsgs
  /\ ioHandled' = ioHandled + 1
  /\ IF answers
       THEN /\ ioSends < MaxIoSends
            /\ ioSends' = ioSends + 1
            /\ ioOutbox' = send(ioOutbox, ioConnected, ioSends + 1)[1]
            /\ ioEmitted' = send(ioOutbox, ioConnected, ioSends + 1)[2]
       ELSE /\ ioEmitted' = <<>>
            /\ UNCHANGED <<ioOutbox, ioSends>>
  /\ UNCHANGED <<ioRole, ioConnected>>
  /\ UNCHANGED <<relayVars, proxyVars, lanVars, agentVars, srvVars, codecVars, pollVars>>

IoInit ==
  /\ \E role \in ClientRoles : IoStart(role)
  /\ SrvStart
  /\ CodecStart
  /\ PollStart
  /\ AgentStart("ws")
  /\ ProxyStart
  /\ LanStart(FALSE)
  /\ wsState = [w \in Sockets |-> "NEW"]
  /\ wsMeta = [w \in Sockets |-> NoMeta]
  /\ chan = [s \in Sessions |-> [r \in Roles |-> createChannel]]
  /\ requests = [s \in Sessions |-> <<>>]
  /\ tunnels = [s \in Sessions |-> <<>>]
  /\ streamState = [r \in Streams |-> "idle"]
  /\ sent = <<>>
  /\ nMsgs = 0

IoNext ==
  \/ IoConnect
  \/ IoDisconnect
  \/ IoSend
  \/ \E answers \in BOOLEAN : IoMsg(answers)

SpecIo == IoInit /\ [][IoNext]_vars

\* C21: a send while the client is disconnected appends the frame to the
\* outbox and emits nothing; the step that connects emits the whole outbox in
\* the order it was filled and leaves it empty, so the outbox is empty
\* whenever the client is connected: every incoming frame is handled, and
\* every later frame is sent, with the flushed frames already emitted.
C21_OutboxFlushedOnConnect ==
  [][/\ (~ioConnected /\ ioSends' = ioSends + 1) =>
          (ioOutbox' = Append(ioOutbox, ioSends') /\ ioEmitted' = <<>>)
     /\ (~ioConnected /\ ioConnected') =>
          (ioEmitted' = ioOutbox /\ ioOutbox' = <<>>)
     /\ ioConnected' => ioOutbox' = <<>>
     /\ (ioConnected /\ ioSends' = ioSends + 1) => ioEmitted' = <<ioSends'>>]_vars

\* A reconnect has just flushed two frames that were sent while the client
\* was disconnected, after an earlier connection handled a frame.
C21_Witness ==
  /\ ioConnected
  /\ ioHandled > 0
  /\ Len(ioEmitted) = 2
  /\ ioOutbox = <<>>


(***************************************************************************)
(* Further properties of the relay (SpecRelay).                            *)
(***************************************************************************)
\* The ids a client may put in a frame: those the model's clients use and
\* one the relay has never seen.
InIds == 1..(MaxId + 1)

\* The ids carried by the frames of a step's output.
OutIds(out) == {out[k].frame.id : k \in 1..Len(out)} \ {0}

QueueIds(q) == {q[k].id : k \in 1..Len(q)} \ {0}

TwoSessions == {"s1", "s2"}

SessPayloads ==
  {Hello(r, s, ProtocolVersion) : r \in Roles, s \in TwoSessions}
  \cup {Frame(ty, 1, "") : ty \in {"http-request", "connect-start", "http-response"}}

SessInit ==
  /\ ProxyStart
  /\ LanStart(FALSE)
  /\ AgentStart("ws")
  /\ IoStart("lan")
  /\ SrvStart
  /\ CodecStart
  /\ PollStart
  /\ wsState = [w \in Sockets |-> "NEW"]
  /\ wsMeta = [w \in Sockets |-> NoMeta]
  /\ chan = [s \in TwoSessions |-> [r \in Roles |-> createChannel]]
  /\ requests = [s \in TwoSessions |-> <<>>]
  /\ tunnels = [s \in TwoSessions |-> <<>>]
  /\ streamState = [r \in Streams |-> "idle"]
  /\ sent = <<>>
  /\ nMsgs = 0

SessWsMessage(w, f) ==
  /\ nMsgs < MaxSessMsgs
  /\ WsMessage(w, f)

SessHttpSend(s, role, f) ==
  /\ nMsgs < MaxSessMsgs
  /\ HttpSend(s, role, f)

SessNext ==
  \/ \E w \in Sockets : WsConnect(w)
  \/ \E w \in Sockets, f \in SessPayloads : SessWsMessage(w, f)
  \/ \E w \in Sockets : WsClose(w)
  \/ \E r \in Streams, s \in TwoSessions, role \in Roles : StreamAttach(r, s, role)
  \/ \E r \in Streams : StreamClose(r)
  \/ \E s \in TwoSessions, role \in Roles, f \in SessPayloads : SessHttpSend(s, role, f)

SpecSessions == SessInit /\ [][SessNext]_vars

\* C23: sessions are isolated.  A step whose output belongs to session a
\* (a routed frame, a hello-ack, the frames of a disconnect cleanup) leaves
\* the channels, requests and tunnels of every other session b as they were
\* and writes to no socket that is the live socket of a channel of b and to
\* no stream attached to b.
C23_SessionsIsolated ==
  [][\A a \in TwoSessions :
       (sent' # <<>> /\ \A k \in 1..Len(sent') : sent'[k].session \in {a, ""}) =>
         \A b \in TwoSessions \ {a} :
           /\ chan'[b] = chan[b]
           /\ requests'[b] = requests[b]
           /\ tunnels'[b] = tunnels[b]
           /\ \A k \in 1..Len(sent'), r \in Roles :
                /\ sent'[k].to = "ws" => chan[b][r].ws # sent'[k].n
                /\ sent'[k].to = "stream" =>
                     sent'[k].n \notin {chan[b][r].streams[j] :
                                          j \in 1..Len(chan[b][r].streams)}]_vars


(***************************************************************************)
(* The relay fed with protocol errors (handleWsMessage and the POST        *)
(* /api/send handler of part_001).                                         *)
(***************************************************************************)
\* The JSON text null: JSON.parse succeeds and yields null.
JsonNull == Frame("<null>", 0, "")

\* A JSON value or object that has no type (a number, a string, {}): its
\* .type reads undefined.
NoType == Frame("undefined", 0, "")

\* What the erring clients put on a socket: malformed JSON, values that are
\* not frame objects, a frame without type, hellos without role or without
\* session; and the valid hellos that register a socket.
ErrPayloads ==
  {InvalidJson, JsonNull, NoType, Hello("", "s1", 0), Hello("lan", "", 0)}
  \cup {Hello(r, "s1", ProtocolVersion) : r \in Roles}

\* The bodies the erring clients POST: malformed JSON, the JSON text null, a
\* body without a message object, and a message that is an object.
PostBodies == {"<invalid json>", "null", "{}"}

ErrMessages == {NoType, Hello("", "s1", 0)}

\* An exception thrown in an event handler with no try around it and no
\* uncaughtException handler in the process: the process ends, and with it
\* every socket and stream.
RelayCrash ==
  /\ relayUp' = FALSE
  /\ wsState' = [w \in Sockets |-> "CLOSED"]
  /\ streamState' = [r \in Streams |-> "closed"]
  /\ sent' = <<>>
  /\ nMsgs' = nMsgs + 1
  /\ UNCHANGED <<wsMeta, chan, requests, tunnels>>
  /\ UNCHANGED <<isAlive, hbTicks, pinged, terminated, answered>>
  /\ UNCHANGED <<proxyVars, lanVars, agentVars, ioVars, codecVars, pollVars>>

ErrWsConnect(w) ==
  /\ relayUp
  /\ WsConnect(w)

\* ws.on('message'): handleWsMessage reads payload.type right after
\* JSON.parse, outside the try; for the value null that read throws.
ErrWsMessage(w, f) ==
  /\ relayUp
  /\ wsState[w] \in {"OPEN", "CLOSING"}
  /\ nMsgs < MaxMsgs
  /\ IF f = JsonNull THEN RelayCrash ELSE WsMessage(w, f)

ErrWsClose(w) ==
  /\ relayUp
  /\ WsClose(w)

ErrStreamAttach(r, s, role) ==
  /\ relayUp
  /\ StreamAttach(r, s, role)

\* req.on('end') of POST /api/send with a body that carries no message
\* object: malformed JSON is replaced by {}, and a body without message is
\* answered 200 like any other; the body null makes payload.message throw.
OnSendBody(H, s, role, b) == H

ErrHttpPost(s, role, b) ==
  /\ relayUp
  /\ nMsgs < MaxMsgs
  /\ IF b = "null" THEN RelayCrash ELSE Commit(OnSendBody(Heap, s, role, b), 1)

ErrHttpSend(s, role, f) ==
  /\ relayUp
  /\ HttpSend(s, role, f)

ErrNext ==
  \/ \E w \in Sockets : ErrWsConnect(w)
  \/ \E w \in Sockets, f \in ErrPayloads : ErrWsMessage(w, f)
  \/ \E w \in Sockets : ErrWsClose(w)
  \/ \E r \in Streams, s \in Sessions, role \in Roles : ErrStreamAttach(r, s, role)
  \/ \E s \in Sessions, role \in Roles, b \in PostBodies : ErrHttpPost(s, role, b)
  \/ \E s \in Sessions, role \in Roles, f \in ErrMessages : ErrHttpSend(s, role, f)

SpecErrors == RelayInit /\ [][ErrNext]_vars

\* An error frame among a step's output, written to socket w.
ErrorTo(out, w) ==
  \E k \in 1..Len(out) :
    out[k].to = "ws" /\ out[k].n = w /\ out[k].frame.type = "error"

\* An error frame among a step's output, handed to channel (s, role).
ErrorToChannel(out, s, role) ==
  \E k \in 1..Len(out) :
    out[k].session = s /\ out[k].role = role /\ out[k].frame.type = "error"

\* C24: the relay is never crashed, and whatever its state a protocol error
\* is answered with an error frame to the party that sent it: on a socket
\* (malformed JSON, a value that is not a frame object, a frame without type,
\* a hello without role or session) to that socket, in a POST (a malformed
\* body, a body without a frame, a frame without type) to the channel of the
\* posting role.
C24_ProtocolErrorsAnswered ==
  /\ relayUp
  /\ \A w \in Sockets, f \in {InvalidJson, NoType, Hello("", "s1", 0), Hello("lan", "", 0)} :
       wsState[w] = "OPEN" => ErrorTo(handleWsMessage(Heap, w, f).sent, w)
  /\ \A s \in Sessions, role \in Roles :
       /\ \A b \in {"<invalid json>", "{}"} :
            ErrorToChannel(OnSendBody(Heap, s, role, b).sent, s, role)
       /\ ErrorToChannel(OnSend(Heap, s, role, NoType).sent, s, role)


\* The LAN of session s is connected by a live socket.
LanSocketLive(s) ==
  chan[s]["lan"].ws # NoWs /\ wsState[chan[s]["lan"].ws] = "OPEN"

\* The LAN's socket is live before the step and open after it.
LanSocketStays(s) ==
  LanSocketLive(s) /\ wsState'[chan[s]["lan"].ws] = "OPEN"

\* The step is the close event of a socket registered as the proxy of s.
ProxyDropStep(s) ==
  \E w \in Sockets :
    ClosesNow(w) /\ wsMeta[w].role = "proxy" /\ wsMeta[w].session = s

\* The step accepts a hello of a proxy for s (its hello-ack goes out).
ProxyHelloStep(s) ==
  CountOf(FramesTo(sent', s, "proxy"), HelloAck("proxy", s)) > 0

\* C26 (as claimed): while the LAN's socket stays connected, neither the
\* proxy's disconnect nor its reconnect makes the relay hand the LAN any
\* frame.
C26_ProxyReconnectLeavesLanAlone ==
  [][\A s \in Sessions :
       (LanSocketStays(s) /\ (ProxyDropStep(s) \/ ProxyHelloStep(s))) =>
         FramesTo(sent', s, "lan") = <<>>]_relayVars

\* C26 (amended): while the LAN's socket stays connected, the proxy's
\* disconnect hands the LAN one connect-end for each tunnel the proxy had
\* opened and nothing else: no frame about a request, and the LAN's channel
\* is as it was; the proxy's reconnect hands the LAN nothing and changes
\* neither requests nor tunnels.
C26_ProxyDropEndsOnlyTunnels ==
  [][\A s \in Sessions :
       LanSocketStays(s) =>
         /\ ProxyDropStep(s) =>
              LET got == FramesTo(sent', s, "lan")
                  tunIds == MapIds(SeqFilterSrc(tunnels[s], "proxy"))
              IN /\ \A k \in 1..Len(got) :
                      got[k].type = "connect-end" /\ got[k].id \in tunIds
                 /\ \A i \in tunIds : CountOf(got, Frame("connect-end", i, "")) = 1
                 /\ chan'[s]["lan"] = chan[s]["lan"]
         /\ ProxyHelloStep(s) =>
              /\ FramesTo(sent', s, "lan") = <<>>
              /\ chan'[s]["lan"] = chan[s]["lan"]
              /\ requests'[s] = requests[s]
              /\ tunnels'[s] = tunnels[s]]_relayVars

\* The proxy's socket has just closed while it had a tunnel open and the
\* LAN's socket stayed connected: the tunnel's connect-end was written to the
\* LAN's socket.
C26_Witness ==
  /\ LanSocketLive("s1")
  /\ chan["s1"]["proxy"].ws = NoWs
  /\ tunnels["s1"] = <<>>
  /\ Len(sent) = 1
  /\ sent[1].to = "ws"
  /\ sent[1].n = chan["s1"]["lan"].ws
  /\ sent[1].frame = Frame("connect-end", 1, "")

(***************************************************************************)
(* The heartbeat of the relay (startServer of part_001): every socket      *)
(* starts alive, a pong marks it alive again, and each tick of the         *)
(* interval terminates the sockets still marked not alive and pings the    *)
(* rest.  wss.clients holds a socket from its connection to its close      *)
(* event.  A ping written to a socket that is no longer OPEN has no        *)
(* effect.                                                                 *)
(***************************************************************************)
Clients == {w \in Sockets : wsState[w] \in {"OPEN", "CLOSING"}}

\* wss.on('connection'): ws.isAlive = true.
HbConnect(w) ==
  /\ relayUp
  /\ wsState[w] = "NEW"
  /\ \A v \in Sockets : v < w => wsState[v] # "NEW"
  /\ wsState' = [wsState EXCEPT ![w] = "OPEN"]
  /\ isAlive' = [isAlive EXCEPT ![w] = TRUE]
  /\ UNCHANGED <<wsMeta, chan, requests, tunnels, streamState, sent, nMsgs>>
  /\ UNCHANGED <<relayUp, hbTicks, pinged, terminated, answered>>
  /\ UNCHANGED <<proxyVars, lanVars, agentVars, ioVars, codecVars, pollVars>>

\* A pong handler that leaves the flag as the tick set it.
HbPong_Ignored(w) ==
  /\ relayUp
  /\ w \in (Clients \cap pinged) \ terminated
  /\ answered' = answered \cup {w}
  /\ UNCHANGED <<relayUp, isAlive, hbTicks, pinged, terminated>>
  /\ UNCHANGED <<relayVars, proxyVars, lanVars, agentVars, ioVars, codecVars, pollVars>>

\* ws.on('pong'): the peer answers the ping of the last tick; a terminated
\* socket is destroyed and delivers nothing more.
HbPong(w) ==
  /\ relayUp
  /\ w \in (Clients \cap pinged) \ terminated
  /\ isAlive' = [isAlive EXCEPT ![w] = TRUE]
  /\ answered' = answered \cup {w}
  /\ UNCHANGED <<relayUp, hbTicks, pinged, terminated>>
  /\ UNCHANGED <<relayVars, proxyVars, lanVars, agentVars, ioVars, codecVars, pollVars>>

\* The setInterval callback: for each client, terminate() when isAlive is
\* false, else isAlive = false and ping().
HbTick ==
  /\ relayUp
  /\ hbTicks < MaxTicks
  /\ LET stale == {w \in Clients : isAlive[w] = FALSE}
     IN /\ wsState' = [w \in Sockets |-> IF w \in stale THEN "CLOSING" ELSE wsState[w]]
        /\ isAlive' = [w \in Sockets |-> IF w \in Clients \ stale THEN FALSE ELSE isAlive[w]]
        /\ terminated' = stale
        /\ pinged' = Clients \ stale
  /\ answered' = {}
  /\ hbTicks' = hbTicks + 1
  /\ UNCHANGED <<wsMeta, chan, requests, tunnels, streamState, sent, nMsgs>>
  /\ UNCHANGED relayUp
  /\ UNCHANGED <<proxyVars, lanVars, agentVars, ioVars, codecVars, pollVars>>

\* A socket the heartbeat terminated delivers no more frames.
HbMessage(w, f) ==
  /\ w \notin terminated
  /\ WsMessage(w, f)

HbNext ==
  \/ \E w \in Sockets : HbConnect(w)
  \/ \E w \in Sockets, f \in Payloads : HbMessage(w, f)
  \/ \E w \in Sockets : WsClose(w)
  \/ \E w \in Sockets : HbPong(w)
  \/ HbTick

SpecHeartbeat == RelayInit /\ [][HbNext]_vars

\* C27: a heartbeat tick terminates exactly the connected sockets that were
\* pinged by the previous tick and have not answered since (and again those it
\* terminated before whose close is still pending), pings every other
\* connected socket, never terminates a socket that answered its ping or was
\* not yet pinged, and leaves every session's channels, queues, requests and
\* tunnels as they were.
C27_HeartbeatTerminatesSilent ==
  [][hbTicks' = hbTicks + 1 =>
       LET pending == Clients \cap terminated
           silent == {w \in Clients : w \in pinged /\ w \notin answered}
       IN /\ terminated' = silent \cup pending
          /\ pinged' = Clients \ (silent \cup pending)
          /\ \A w \in terminated' : wsState'[w] = "CLOSING"
          /\ \A w \in Sockets \ terminated' : wsState'[w] = wsState[w]
          /\ \A w \in Clients : (w \in answered \/ w \notin pinged \cup terminated) =>
                                  w \notin terminated'
          /\ chan' = chan
          /\ requests' = requests
          /\ tunnels' = tunnels
          /\ wsMeta' = wsMeta
          /\ sent' = sent]_vars

\* The second tick has terminated the socket that stayed silent (it is the
\* LAN of a session with an open tunnel) and pinged the one that answered.
C27_Witness ==
  /\ hbTicks = 2
  /\ terminated = {1}
  /\ pinged = {2}
  /\ wsState[1] = "CLOSING"
  /\ wsState[2] = "OPEN"
  /\ chan["s1"]["lan"].ws = 1
  /\ tunnels["s1"] # <<>>

(***************************************************************************)
(* encodeBody and decodeBody (common.js).  A buffer is a sequence of       *)
(* bytes, a string a sequence of characters; base64 is computed as         *)
(* Buffer's 'base64' encoding computes it: three bytes to four characters  *)
(* of the alphabet, a last group of one or two bytes padded with "=", and  *)
(* a decoder that stops at the padding.                                    *)
(***************************************************************************)
Bytes == {0, 1, 63, 128, 255}
\* encodeBody called without a buffer (undefined or null): a value that is no
\* sequence of bytes.
NoBody == <<-1>>

\* The buffers of at most MaxBody bytes.
Buffers == UNION {[1..n -> Bytes] : n \in 0..MaxBody}

Alphabet ==
  <<"A", "B", "C", "D", "E", "F", "G", "H", "I", "J", "K", "L", "M", "N", "O", "P",
     "Q", "R", "S", "T", "U", "V", "W", "X", "Y", "Z", "a", "b", "c", "d", "e", "f",
     "g", "h", "i", "j", "k", "l", "m", "n", "o", "p", "q", "r", "s", "t", "u", "v",
     "w", "x", "y", "z", "0", "1", "2", "3", "4", "5", "6", "7", "8", "9", "+", "/">>
Pad == "="

\* The alphabet's character of a six-bit value, and back.
Char(v) == Alphabet[v + 1]
Sextet(c) == CHOOSE v \in 0..63 : Alphabet[v + 1] = c

\* buffer.toString('base64')
RECURSIVE toBase64(_)
toBase64(b) ==
  IF Len(b) = 0 THEN <<>>
  ELSE IF Len(b) = 1
  THEN <<Char(b[1] \div 4), Char((b[1] % 4) * 16), Pad, Pad>>
  ELSE IF Len(b) = 2
  THEN <<Char(b[1] \div 4), Char((b[1] % 4) * 16 + b[2] \div 16),
         Char((b[2] % 16) * 4), Pad>>
  ELSE <<Char(b[1] \div 4), Char((b[1] % 4) * 16 + b[2] \div 16),
         Char((b[2] % 16) * 4 + b[3] \div 64), Char(b[3] % 64)>>
       \o toBase64(SubSeq(b, 4, Len(b)))

\* The characters of a string before its first "=".
RECURSIVE Unpadded(_)
Unpadded(str) ==
  IF str = <<>> \/ Head(str) = Pad THEN <<>>
  ELSE <<Head(str)>> \o Unpadded(Tail(str))

\* The bytes of a run of alphabet characters: four characters give three
\* bytes, a last group of three gives two, of two gives one, and a single
\* left-over character gives none.
RECURSIVE fromSextets(_)
fromSextets(str) ==
  IF Len(str) < 2 THEN <<>>
  ELSE LET s1 == Sextet(str[1])
           s2 == Sextet(str[2])
           b1 == s1 * 4 + s2 \div 16
       IN IF Len(str) = 2 THEN <<b1>>
          ELSE LET s3 == Sextet(str[3])
                   b2 == (s2 % 16) * 16 + s3 \div 4
               IN IF Len(str) = 3 THEN <<b1, b2>>
                  ELSE <<b1, b2, (s3 % 4) * 64 + Sextet(str[4])>>
                       \o fromSextets(SubSeq(str, 5, Len(str)))

\* Buffer.from(str, 'base64')
fromBase64(str) == fromSextets(Unpadded(str))

\* encodeBody(buffer)
encodeBody(buffer) ==
  IF buffer = NoBody \/ Len(buffer) = 0 THEN <<>>
  ELSE toBase64(buffer)

\* decodeBody that decodes whole groups of four characters only.
decodeBody_WholeGroups(base64) ==
  IF base64 = <<>> THEN <<>>
  ELSE fromBase64(SubSeq(base64, 1, 4 * (Len(Unpadded(base64)) \div 4)))

\* decodeBody(base64)
decodeBody(base64) ==
  IF base64 = <<>> THEN <<>>
  ELSE fromBase64(base64)

\* A caller encodes a body (or no body at all) ...
Encode ==
  /\ codecPc = "input"
  /\ encoded' = encodeBody(body)
  /\ codecPc' = "encoded"
  /\ UNCHANGED <<body, decoded>>
  /\ UNCHANGED <<relayVars, proxyVars, lanVars, agentVars, ioVars, srvVars, pollVars>>

\* ... and the receiver decodes what arrived.
Decode ==
  /\ codecPc = "encoded"
  /\ decoded' = decodeBody(encoded)
  /\ codecPc' = "decoded"
  /\ UNCHANGED <<body, encoded>>
  /\ UNCHANGED <<relayVars, proxyVars, lanVars, agentVars, ioVars, srvVars, pollVars>>

CodecInit ==
  /\ ProxyStart
  /\ LanStart(FALSE)
  /\ AgentStart("ws")
  /\ IoStart("lan")
  /\ SrvStart
  /\ PollStart
  /\ wsState = [w \in Sockets |-> "NEW"]
  /\ wsMeta = [w \in Sockets |-> NoMeta]
  /\ chan = [s \in Sessions |-> [r \in Roles |-> createChannel]]
  /\ requests = [s \in Sessions |-> <<>>]
  /\ tunnels = [s \in Sessions |-> <<>>]
  /\ streamState = [r \in Streams |-> "idle"]
  /\ sent = <<>>
  /\ nMsgs = 0
  /\ body \in Buffers \cup {NoBody}
  /\ encoded = <<>>
  /\ decoded = <<>>
  /\ codecPc = "input"

CodecNext ==
  \/ Encode
  \/ Decode

SpecCodec == CodecInit /\ [][CodecNext]_vars

\* C28: for every byte buffer b, the empty one included, decodeBody of
\* encodeBody(b) is b; the empty buffer encodes to the empty string, and the
\* empty string decodes to the empty buffer.
C28_Base64RoundTrip ==
  /\ (codecPc # "input" /\ body = <<>>) => encoded = <<>>
  /\ (codecPc = "decoded" /\ encoded = <<>>) => decoded = <<>>
  /\ (codecPc = "decoded" /\ body # NoBody) => decoded = body

\* A two-byte buffer has gone through the codec: its last group was padded
\* with one "=" and came back as the two bytes.
C28_Witness ==
  /\ codecPc = "decoded"
  /\ body = <<255, 1>>
  /\ encoded = <<"/", "w", "E", "=">>
  /\ decoded = <<255, 1>>

IdsOfType(fs, types) == {fs[k].id : k \in {j \in 1..Len(fs) : fs[j].type \in types}}

\* The frames a step routed to a channel.  A stream that attaches delivers
\* what the queue already held; it routes nothing.
RoutedTo(s, r) ==
  IF streamState' = streamState THEN FramesTo(sent', s, r) ELSE <<>>

\* An id enters tunnels only in a step that hands its connect-start to the
\* LAN channel.
TunnelsEnterWithStart ==
  \A s \in Sessions :
    MapIds(tunnels'[s]) \ MapIds(tunnels[s])
      \subseteq IdsOfType(RoutedTo(s, "lan"), {"connect-start"})

\* C30 as claimed: every id in tunnels is an active tunnel: it entered when
\* its connect-start was handed to the LAN channel, and a step in which the
\* relay routes a connect-end or connect-error for it, toward the proxy or
\* toward the LAN, leaves it out of tunnels.
C30_TunnelsAreActive ==
  [][/\ TunnelsEnterWithStart
     /\ \A s \in Sessions, r \in Roles :
          IdsOfType(RoutedTo(s, r), {"connect-end", "connect-error"})
            \cap MapIds(tunnels'[s]) = {}]_relayVars

\* C30 amended: every id in tunnels entered when its connect-start was handed
\* to the LAN channel, and a step in which the relay routes a connect-end or
\* connect-error for it to the proxy, or ends it because the proxy's socket
\* closed, leaves it out of tunnels; a connect-end sent by the proxy is
\* forwarded to the LAN and leaves the entry where it is.
C30_TunnelsOpenTowardLan ==
  [][/\ TunnelsEnterWithStart
     /\ \A s \in Sessions :
          /\ IdsOfType(RoutedTo(s, "proxy"), {"connect-end", "connect-error"})
               \cap MapIds(tunnels'[s]) = {}
          /\ ProxyDropStep(s) => tunnels'[s] = <<>>
          /\ \A i \in MapIds(tunnels[s]) :
               (/\ RoutedTo(s, "lan") = <<Frame("connect-end", i, "")>>
                /\ RoutedTo(s, "proxy") = <<>>
                /\ wsState' = wsState) =>
                 tunnels'[s] = tunnels[s]]_relayVars

\* The LAN's connect-end for the open tunnel has just been routed to the
\* proxy, and the tunnel is gone from the map.
C30_Witness ==
  /\ tunnels["s1"] = <<>>
  /\ FramesTo(sent, "s1", "proxy") = <<Frame("connect-end", 1, "")>>
  /\ chan["s1"]["lan"].ws # NoWs
  /\ wsState[chan["s1"]["lan"].ws] = "OPEN"

(***************************************************************************)
(* Which channels hold a socket.                                           *)
(***************************************************************************)
\* The channels whose ws is the socket w.
ChannelsOf(w) == {x \in (DOMAIN chan) \X Roles : chan[x[1]][x[2]].ws = w}

\* C31: in every reachable relay state a socket is the live socket of at most
\* one channel over all sessions and roles, also after the socket has sent a
\* second hello naming another session or role.
C31_SocketInOneChannel ==
  \A w \in Sockets : Cardinality(ChannelsOf(w)) <= 1

(***************************************************************************)
(* The close of a socket that a newer hello displaced.                     *)
(***************************************************************************)
\* The socket w, registered for (s, r), was closed by the relay when a newer
\* hello took its place, and its close event runs now while the replacing
\* socket is live.
DisplacedCloses(w, s, r) ==
  /\ wsState[w] = "CLOSING"
  /\ wsState'[w] = "CLOSED"
  /\ wsMeta[w] = [session |-> s, role |-> r]
  /\ chan[s][r].ws # NoWs
  /\ chan[s][r].ws # w
  /\ wsState[chan[s][r].ws] = "OPEN"

\* C32: when a socket displaced by a newer hello for the same (session, role)
\* closes, the channel still holds the newer socket, requests and tunnels of
\* the session are unchanged, and nothing is handed to either channel.
C32_DisplacedCloseIsSilent ==
  [][\A w \in Sockets, s \in Sessions, r \in Roles :
       DisplacedCloses(w, s, r) =>
         /\ chan'[s][r].ws = chan[s][r].ws
         /\ requests'[s] = requests[s]
         /\ tunnels'[s] = tunnels[s]
         /\ FramesTo(sent', s, "proxy") = <<>>
         /\ FramesTo(sent', s, "lan") = <<>>]_relayVars

(***************************************************************************)
(* Frames of a socket that has no accepted hello.                          *)
(***************************************************************************)
\* An open socket whose hello was stored but never accepted: it has
\* connection metadata and was never installed in a channel (a socket leaves
\* a channel only by closing or by being closed as displaced).
HelloRejected(w) ==
  /\ wsState[w] = "OPEN"
  /\ wsMeta[w] # NoMeta
  /\ ChannelsOf(w) = {}

\* C33: the relay routes a frame of a persistent socket only after an accepted
\* hello of that socket: a frame that arrives before any hello is answered
\* 'Handshake required' on the socket and changes nothing, and a frame that
\* arrives after a rejected hello is handed to no channel and changes neither
\* requests nor tunnels.
C33_NoRoutingWithoutHello ==
  \A w \in Sockets, f \in DataPayloads :
    LET H == handleWsMessage(Heap, w, f)
    IN /\ (wsState[w] = "OPEN" /\ wsMeta[w] = NoMeta) =>
            H = [Heap EXCEPT !.sent = <<Out("ws", w, "", "", ErrorFrame("Handshake required"))>>]
       /\ HelloRejected(w) =>
            /\ \A s \in Sessions, r \in Roles : FramesTo(H.sent, s, r) = <<>>
            /\ H.requests = requests
            /\ H.tunnels = tunnels

(***************************************************************************)
(* Terminal frames toward the proxy.                                       *)
(***************************************************************************)
\* How many frames of the given types carry the id i.
NumOf(fs, types, i) ==
  Cardinality({k \in 1..Len(fs) : fs[k].type \in types /\ fs[k].id = i})

\* C34: for every recorded id the proxy channel is handed at most one
\* terminal frame, forwarded from the LAN or synthesized by the LAN-disconnect
\* cleanup, and nothing of that id afterwards: a step hands the proxy channel
\* at most one http-response per id, only for an id that is in requests and
\* that the step removes, at most one connect-end or connect-error per id,
\* only for an id that is in tunnels and that the step removes, and a
\* connect-ack only for an id that is in tunnels.
C34_OneTerminalFrame ==
  [][\A s \in Sessions, i \in Ids :
       LET got == RoutedTo(s, "proxy")
           nResp == NumOf(got, {"http-response"}, i)
           nEnd == NumOf(got, {"connect-end", "connect-error"}, i)
       IN /\ nResp <= 1
          /\ nResp = 1 => i \in MapIds(requests[s]) /\ i \notin MapIds(requests'[s])
          /\ nEnd <= 1
          /\ nEnd = 1 => i \in MapIds(tunnels[s]) /\ i \notin MapIds(tunnels'[s])
          /\ NumOf(got, {"connect-ack", "connect-data"}, i) > 0 =>
               /\ i \in MapIds(tunnels[s])
               /\ nEnd = 0]_relayVars

\* The LAN's http-response for the recorded request has just been forwarded
\* to the proxy's socket and the request is off the record, while a tunnel is
\* still open.
C34_Witness ==
  /\ FramesTo(sent, "s1", "proxy") = <<Frame("http-response", 1, "")>>
  /\ sent[1].to = "ws"
  /\ requests["s1"] = <<>>
  /\ tunnels["s1"] # <<>>

(***************************************************************************)
(* The LAN agent and its transport to the relay (src/src/lan.js): frames   *)
(* of the relay arrive only while the transport is connected, the targets' *)
(* events at any time.                                                     *)
(***************************************************************************)
\* socket.on('disconnect') (ws.on('close') in the WebSocket revision): every
\* socket of the tunnel map is destroyed and the map cleared.
LanDisconnect ==
  /\ ioConnected
  /\ ioConnected' = FALSE
  /\ ioEmitted' = <<>>
  /\ tgt' = [i \in Attempts |-> IF i \in lTunnels THEN "destroyed" ELSE tgt[i]]
  /\ lTunnels' = {}
  /\ UNCHANGED <<ioRole, ioOutbox, ioSends, ioHandled>>
  /\ UNCHANGED <<lanLog, attached, tunnelProxyUrl>>
  /\ UNCHANGED <<relayVars, proxyVars, agentVars, srvVars, codecVars, pollVars>>

\* socket.on('msg') while connected.
LanMsgConnectStart(i, valid) ==
  /\ ioConnected
  /\ LanConnectStart(i, valid)

LanMsgConnectData(i) ==
  /\ ioConnected
  /\ LanConnectData(i)

LanMsgConnectEnd(i) ==
  /\ ioConnected
  /\ LanConnectEnd(i)

LanDropNext ==
  \/ IoConnect
  \/ LanDisconnect
  \/ \E i \in Attempts, valid \in BOOLEAN : LanMsgConnectStart(i, valid)
  \/ \E i \in Attempts : LanMsgConnectData(i)
  \/ \E i \in Attempts : LanMsgConnectEnd(i)
  \/ \E i \in Attempts : TargetConnects(i)
  \/ \E i \in Attempts : TargetFails(i)
  \/ \E i \in Attempts : TargetData(i)
  \/ \E i \in Attempts : TargetEnds(i)

SpecLanDrop == LanInit /\ [][LanDropNext]_vars

\* The target sockets that exist and are not closed.
OpenTargets == {i \in Attempts : tgt[i] \in {"connecting", "connected", "halfclosed"}}

\* C35: while the agent's transport to the relay is disconnected no target
\* socket is open and the tunnel map is empty, also when a target connection
\* was still being established at the moment of the disconnect.
C35_DisconnectClosesTargets ==
  ~ioConnected => (OpenTargets = {} /\ lTunnels = {})

(***************************************************************************)
(* The socket.io local proxy (startProxy of src/unnamed/part_003): browser *)
(* requests, their timers, and the outbox in front of the socket.  The     *)
(* frame of request r is written r.                                        *)
(***************************************************************************)
\* socket.on('disconnect'): cleanupPendingWithMessage answers every pending
\* request 502, clears its timer and empties pendingHttp.
PxDisconnect ==
  /\ ioConnected
  /\ ioConnected' = FALSE
  /\ ioEmitted' = <<>>
  /\ resHead' = [r \in Reqs |-> IF r \in pendingHttp /\ resHead[r] = <<>>
                                THEN <<502>> ELSE resHead[r]]
  /\ resEnd' = [r \in Reqs |-> IF r \in pendingHttp THEN resEnd[r] + 1 ELSE resEnd[r]]
  /\ timers' = timers \ pendingHttp
  /\ pendingHttp' = {}
  /\ UNCHANGED <<ioRole, ioOutbox, ioSends, ioHandled>>
  /\ UNCHANGED <<pWs, reqPhase, tunSide, relReq, relTun, inbox, pSent, nFwd>>
  /\ UNCHANGED <<relayVars, lanVars, agentVars, srvVars, codecVars, pollVars>>

\* handleHttpRequest up to its await: 503 when the socket is not connected,
\* else the body is being collected.
PxRequest(r) ==
  /\ reqPhase[r] = "idle"
  /\ IF ioConnected
     THEN /\ reqPhase' = [reqPhase EXCEPT ![r] = "reading"]
          /\ UNCHANGED <<resHead, resEnd>>
     ELSE /\ reqPhase' = [reqPhase EXCEPT ![r] = "done"]
          /\ resHead' = [resHead EXCEPT ![r] = <<503>>]
          /\ resEnd' = [resEnd EXCEPT ![r] = @ + 1]
  /\ ioEmitted' = <<>>
  /\ UNCHANGED <<ioRole, ioConnected, ioOutbox, ioSends, ioHandled>>
  /\ UNCHANGED <<pWs, pendingHttp, timers, tunSide, relReq, relTun, inbox, pSent, nFwd>>
  /\ UNCHANGED <<relayVars, lanVars, agentVars, srvVars, codecVars, pollVars>>

\* handleHttpRequest after the await: the timer is armed, the entry stored
\* and the frame handed to sendToServer.
PxBodyRead(r) ==
  /\ reqPhase[r] = "reading"
  /\ reqPhase' = [reqPhase EXCEPT ![r] = "done"]
  /\ timers' = timers \cup {r}
  /\ pendingHttp' = pendingHttp \cup {r}
  /\ ioOutbox' = send(ioOutbox, ioConnected, r)[1]
  /\ ioEmitted' = send(ioOutbox, ioConnected, r)[2]
  /\ ioSends' = ioSends + 1
  /\ UNCHANGED <<ioRole, ioConnected, ioHandled>>
  /\ UNCHANGED <<pWs, resHead, resEnd, tunSide, relReq, relTun, inbox, pSent, nFwd>>
  /\ UNCHANGED <<relayVars, lanVars, agentVars, srvVars, codecVars, pollVars>>

\* The setTimeout callback: the entry is deleted and the browser answered 504.
PxTimer(r) ==
  /\ r \in timers
  /\ timers' = timers \ {r}
  /\ pendingHttp' = pendingHttp \ {r}
  /\ resHead' = WriteHeadOnce(resHead, r, 504)
  /\ resEnd' = [resEnd EXCEPT ![r] = @ + 1]
  /\ ioEmitted' = <<>>
  /\ UNCHANGED <<ioRole, ioConnected, ioOutbox, ioSends, ioHandled>>
  /\ UNCHANGED <<pWs, reqPhase, tunSide, relReq, relTun, inbox, pSent, nFwd>>
  /\ UNCHANGED <<relayVars, lanVars, agentVars, srvVars, codecVars, pollVars>>

\* case 'http-response' for a request whose frame went out: the browser is
\* answered, the timer cleared and the entry deleted; a response for an id
\* that is no longer pending is dropped.
PxResponse(r) ==
  /\ ioConnected
  /\ reqPhase[r] = "done"
  /\ resHead[r] # <<503>>
  /\ r \notin Elems(ioOutbox)
  /\ ioHandled < MaxIoMsgs
  /\ ioHandled' = ioHandled + 1
  /\ IF r \in pendingHttp
     THEN /\ pendingHttp' = pendingHttp \ {r}
          /\ timers' = timers \ {r}
          /\ resHead' = WriteHeadOnce(resHead, r, 200)
          /\ resEnd' = [resEnd EXCEPT ![r] = @ + 1]
     ELSE UNCHANGED <<pendingHttp, timers, resHead, resEnd>>
  /\ ioEmitted' = <<>>
  /\ UNCHANGED <<ioRole, ioConnected, ioOutbox, ioSends>>
  /\ UNCHANGED <<pWs, reqPhase, tunSide, relReq, relTun, inbox, pSent, nFwd>>
  /\ UNCHANGED <<relayVars, lanVars, agentVars, srvVars, codecVars, pollVars>>

PxInit ==
  /\ IoStart("proxy")
  /\ ProxyStart
  /\ LanStart(FALSE)
  /\ AgentStart("ws")
  /\ SrvStart
  /\ CodecStart
  /\ PollStart
  /\ wsState = [w \in Sockets |-> "NEW"]
  /\ wsMeta = [w \in Sockets |-> NoMeta]
  /\ chan = [s \in Sessions |-> [r \in Roles |-> createChannel]]
  /\ requests = [s \in Sessions |-> <<>>]
  /\ tunnels = [s \in Sessions |-> <<>>]
  /\ streamState = [r \in Streams |-> "idle"]
  /\ sent = <<>>
  /\ nMsgs = 0

PxNext ==
  \/ IoConnect
  \/ PxDisconnect
  \/ \E r \in Reqs : PxRequest(r)
  \/ \E r \in Reqs : PxBodyRead(r)
  \/ \E r \in Reqs : PxTimer(r)
  \/ \E r \in Reqs : PxResponse(r)

SpecIoProxy == PxInit /\ [][PxNext]_vars

\* C36: the proxy never emits the http-request frame of a request whose
\* browser has already been answered: every frame a step emits on the socket,
\* a flush included, belongs to a request whose response has not been ended.
C36_NoRequestAfterAnswer ==
  \A k \in 1..Len(ioEmitted) : resEnd[ioEmitted[k]] = 0

(***************************************************************************)
(* What becomes of a batch the send loop took from the outbox.             *)
(***************************************************************************)
\* C37: the long-poll send loop loses no outbound frame: when the POST of a
\* batch is over, either the relay accepted it with a success status or the
\* batch is back at the front of the outbox, also when the relay answered
\* with a non-success status.
C37_NoFrameLostBySendLoop ==
  [][(inflight # <<>> /\ inflight' = <<>>) =>
       \/ postResult' = "ok" /\ outbox' = outbox
       \/ outbox' = inflight \o outbox]_vars

(***************************************************************************)
(* The LAN leaving when it is attached through a stream only.              *)
(***************************************************************************)
\* The stream r, the only attachment of the session's LAN channel (no
\* socket, no other stream), closes in this step.
LanStreamDrops(s, r) ==
  /\ streamState[r] = "open"
  /\ streamState'[r] = "closed"
  /\ chan[s]["lan"].ws = NoWs
  /\ chan[s]["lan"].streams = <<r>>

\* C38: when the LAN is attached only through a long-poll stream and that
\* stream closes, every outstanding id of the proxy in requests and tunnels
\* gets its terminal frame toward the proxy channel and the maps are cleared,
\* as when a LAN socket drops.
C38_StreamDropCancels ==
  [][\A s \in Sessions, r \in Streams :
       LanStreamDrops(s, r) =>
         LET got == FramesTo(sent', s, "proxy")
         IN /\ \A i \in MapIds(SeqFilterSrc(requests[s], "proxy")) :
                 NumOf(got, {"http-response"}, i) = 1
            /\ \A i \in MapIds(SeqFilterSrc(tunnels[s], "proxy")) :
                 NumOf(got, {"connect-error"}, i) = 1
            /\ requests'[s] = <<>>
            /\ tunnels'[s] = <<>>]_relayVars

(***************************************************************************)
(* How often the fallback starts.                                          *)
(***************************************************************************)
\* C39: under auto the fallback to the long-poll transport starts at most
\* once, also when the failed socket raises an error event and then a close
\* event: runHttpMode never runs a second time, the step that starts it
\* removes the socket's listeners and posts exactly one hello, and a later
\* event of the socket starts nothing and sends nothing.
C39_FallbackStartsOnce ==
  [][/\ httpRuns' <= 1
     /\ (httpRuns' = httpRuns + 1) =>
          /\ listening /\ ~listening'
          /\ nFrames' = nFrames + 1
          /\ inflight' = <<nFrames + 1>>
          /\ aOut' = [via |-> "http", frames |-> <<nFrames + 1>>]
     /\ (httpRuns = 1 /\ aWs' # aWs) =>
          /\ aOut' = NoOut
          /\ UNCHANGED <<httpRuns, nFrames, outbox, inflight, firstPosted, listening>>]_vars

\* The socket failed before it opened, the fallback started and its hello
\* was accepted; the socket's close event has come as well, and still one
\* long-poll transport runs and one hello was created.
C39_Witness ==
  /\ transport = "auto"
  /\ aWs = "CLOSED"
  /\ ~opened
  /\ httpRuns = 1
  /\ ackedVia = "http"
  /\ firstPosted = 1

(***************************************************************************)
(* The long-poll recv of server.js.  The channel has no socket, so         *)
(* respondChannel takes its second or third branch.  The pollers of the    *)
(* client keep at most parallelPolls recv requests open.  The timers all   *)
(* run 30 s, so they fire in the order they were set.                      *)
(***************************************************************************)
\* res.writeHead(..); res.end(..) on recv request q.
End(rs, q, a) ==
  [rs EXCEPT ![q] = [state |-> "ended", answers |-> Append(@.answers, a)]]

OpenRecvs == {q \in Polls : recv[q].state = "open"}

\* drainChannel(channel, res): the oldest queued frame answers the request;
\* with an empty queue the request becomes channel.pendingRes and a new
\* timer becomes channel.pendingTimer, whatever the two fields held.
drainChannel(q) ==
  IF queue # <<>>
    THEN /\ recv' = End(recv, q, Answer(200, Head(queue), NoRes))
         /\ queue' = Tail(queue)
         /\ UNCHANGED <<pendingRes, pendingTimer, armed>>
    ELSE /\ recv' = [recv EXCEPT ![q].state = "open"]
         /\ pendingRes' = q
         /\ pendingTimer' = q
         /\ armed' = Append(armed, q)
         /\ UNCHANGED queue

\* GET /api/tunnel/<session>/recv?role=<role> from one of the pollers.
RecvGet ==
  /\ nRecv < MaxPolls
  /\ Cardinality(OpenRecvs) < parallelPolls
  /\ nRecv' = nRecv + 1
  /\ drainChannel(nRecv + 1)
  /\ UNCHANGED nPayloads
  /\ UNCHANGED <<relayVars, proxyVars, lanVars, agentVars, ioVars, srvVars, codecVars>>

\* respondChannel(channel, payload) for the next frame routed to the
\* channel: it ends channel.pendingRes with the frame and clears
\* channel.pendingTimer, or it queues the frame.
RecvFrame ==
  /\ nPayloads < MaxArrive
  /\ nPayloads' = nPayloads + 1
  /\ IF pendingRes # NoRes
       THEN /\ recv' = End(recv, pendingRes, Answer(200, nPayloads + 1, NoRes))
            /\ armed' = SelectSeq(armed, LAMBDA t : t # pendingTimer)
            /\ pendingRes' = NoRes
            /\ pendingTimer' = NoRes
            /\ UNCHANGED queue
       ELSE /\ queue' = Append(queue, nPayloads + 1)
            /\ UNCHANGED <<pendingRes, pendingTimer, armed, recv>>
  /\ UNCHANGED nRecv
  /\ UNCHANGED <<relayVars, proxyVars, lanVars, agentVars, ioVars, srvVars, codecVars>>

\* The callback of the oldest armed timer: it ends whatever request
\* channel.pendingRes holds now with 204.
RecvTimeout ==
  /\ armed # <<>>
  /\ armed' = Tail(armed)
  /\ IF pendingRes # NoRes
       THEN /\ recv' = End(recv, pendingRes, Answer(204, 0, Head(armed)))
            /\ pendingRes' = NoRes
            /\ pendingTimer' = NoRes
       ELSE UNCHANGED <<pendingRes, pendingTimer, recv>>
  /\ UNCHANGED <<queue, nRecv, nPayloads>>
  /\ UNCHANGED <<relayVars, proxyVars, lanVars, agentVars, ioVars, srvVars, codecVars>>

PollNext ==
  \/ RecvGet
  \/ RecvFrame
  \/ RecvTimeout

SpecPoll == RelayInit /\ [][PollNext]_vars

\* The frames the recv requests were answered with.
AnsweredWith(f) ==
  {q \in Polls : \E k \in 1..Len(recv[q].answers) : recv[q].answers[k].frame = f}

WaitingAt(f) == {k \in 1..Len(queue) : queue[k] = f}

\* C40: every recv request is completed exactly once, with a frame or with
\* the 204 of its own 30 s timer, also with several recv requests open at
\* the same time: an open request is the one the channel holds, with its
\* timer armed, an ended request has one answer, and every frame that
\* arrived is in the queue or in the answer of one request.
C40_EveryRecvCompletedOnce ==
  /\ \A q \in Polls :
       /\ recv[q].state = "open" =>
            /\ pendingRes = q
            /\ pendingTimer = q
            /\ \E k \in 1..Len(armed) : armed[k] = q
       /\ recv[q].state = "ended" =>
            /\ Len(recv[q].answers) = 1
            /\ recv[q].answers[1].status = 204 => recv[q].answers[1].timer = q
            /\ recv[q].answers[1].status = 200 =>
                 recv[q].answers[1].frame \in 1..nPayloads
  /\ \A f \in 1..nPayloads :
       Cardinality(AnsweredWith(f)) + Cardinality(WaitingAt(f)) = 1


=============================================================================
